---- MODULE Spec2Model ----
(***************************************************************************)
(* Model of the adaptive export engine of apnger:                          *)
(* VideoProcessor (src/src/shared/processor.ts): processVideo, the         *)
(* per-platform exporters with their size-optimisation loops and           *)
(* buildFilterChain.                                                       *)
(*                                                                         *)
(* Conventions.  Times are rationals: input.duration counts units of       *)
(* 1/TimeDenom second.  A frame rate is a rational [num, den].  Text that  *)
(* the code inspects (the key colour) is a sequence of one-character       *)
(* strings.  An optional value is a sequence of length 0 or 1; an optional *)
(* number that the code tests for truthiness is 0 when missing.  File      *)
(* sizes are bytes.  Floating-point rounding of the quotient               *)
(* maxFrames / duration is not modelled: rates are exact rationals.        *)
(***************************************************************************)
EXTENDS Integers, Sequences, FiniteSets, TLC

\* ------------------------------------------------------------------ bounds
\* input.duration is counted in 1/TimeDenom second.
TimeDenom == 10
\* Largest source duration drawn for the filter-chain specification, in
\* units of 1/TimeDenom second.
MaxDuration == 45
\* Largest source frame rate drawn for the filter-chain specification.
MaxSourceFps == 31
\* At most this many platforms are enabled in one processVideo run.
MaxEnabled == 2

\* --------------------------------------------------------- program constants
StickerMaxAttempts == 15
EmoteMaxAttempts == 10
TwitchFpsCap == 30
StickerFpsCap == 10
EmoteFpsCap == 15
StickerInitialColors == 192
EmoteInitialColors == 128
SheetSize == 1024
SheetMaxFrames == 64

\* ------------------------------------------------------------ platform table
\* The keys of EMOTE_SPECS in the order processVideo iterates them
\* (the order of the cases of exportFormat).
FormatKeys == <<"twitch", "discord-sticker", "discord-emote", "7tv", "vrc-spritesheet", "web-gif">>

KeySet == {FormatKeys[i] : i \in 1..Len(FormatKeys)}

\* EMOTE_SPECS is declared in src/shared/types.ts; the values are those of the
\* platform table of the README.  maxFrames = 0 and maxSize = 0 mean "none".
EMOTE_SPECS == [k \in KeySet |->
    CASE k = "twitch" ->
           [name |-> "Twitch", format |-> "gif", width |-> 112, height |-> 112,
            maxSize |-> 1048576, maxFrames |-> 60, spriteSheet |-> FALSE]
      [] k = "discord-sticker" ->
           [name |-> "Discord Sticker", format |-> "apng", width |-> 320, height |-> 320,
            maxSize |-> 524288, maxFrames |-> 0, spriteSheet |-> FALSE]
      [] k = "discord-emote" ->
           [name |-> "Discord Emote", format |-> "gif", width |-> 128, height |-> 128,
            maxSize |-> 262144, maxFrames |-> 0, spriteSheet |-> FALSE]
      [] k = "7tv" ->
           [name |-> "7TV", format |-> "gif", width |-> 128, height |-> 128,
            maxSize |-> 3145728, maxFrames |-> 0, spriteSheet |-> FALSE]
      [] k = "vrc-spritesheet" ->
           [name |-> "VRChat", format |-> "png", width |-> 1024, height |-> 1024,
            maxSize |-> 10485760, maxFrames |-> 64, spriteSheet |-> TRUE]
      [] OTHER ->
           [name |-> "Web GIF", format |-> "gif", width |-> 0, height |-> 0,
            maxSize |-> 0, maxFrames |-> 0, spriteSheet |-> FALSE]]

\* ------------------------------------------------------------------- helpers
Min(a, b) == IF a <= b THEN a ELSE b

Max(a, b) == IF a >= b THEN a ELSE b

\* A rational frame rate.
Rate(n, d) == [num |-> n, den |-> d]

RateLeq(r, s) == r.num * s.den <= s.num * r.den

\* Math.min of two rates: the first when they are equal.
RateMin(r, s) == IF RateLeq(r, s) THEN r ELSE s

\* String.prototype.toLowerCase on one character.
ToLowerChar(c) ==
    CASE c = "A" -> "a" [] c = "B" -> "b" [] c = "C" -> "c"
      [] c = "D" -> "d" [] c = "E" -> "e" [] c = "F" -> "f"
      [] OTHER -> c

toLowerCase(s) == [i \in 1..Len(s) |-> ToLowerChar(s[i])]

\* String.prototype.includes.
includes(s, sub) ==
    \E i \in 1..(Len(s) - Len(sub) + 1) : SubSeq(s, i, i + Len(sub) - 1) = sub

\* String.prototype.replace(ch, rep) with a one-character pattern: the first
\* occurrence only.
replace(s, ch, rep) ==
    IF \E i \in 1..Len(s) : s[i] = ch
    THEN LET i == CHOOSE j \in 1..Len(s) : s[j] = ch /\ \A m \in 1..(j - 1) : s[m] # ch
         IN  SubSeq(s, 1, i - 1) \o rep \o SubSeq(s, i + 1, Len(s))
    ELSE s

\* `x || d` on a number: d when x is 0.
OrDefault(x, d) == IF x = 0 THEN d ELSE x

\* ---------------------------------------------------------- buildFilterChain
\* FrameRateStage with the frame budget compared by >= instead of >.
FrameRateStage_Geq(inp, targetFps, maxFrames) ==
    IF maxFrames # 0 /\ inp.fps > 0 /\ inp.duration > 0
    THEN LET totalFrames == (inp.duration * inp.fps) \div TimeDenom
         IN  IF totalFrames >= maxFrames
             THEN [stage |-> "fps",
                   rate |-> RateMin(Rate(targetFps, 1), Rate(maxFrames * TimeDenom, inp.duration))]
             ELSE [stage |-> "fps", rate |-> Rate(targetFps, 1)]
    ELSE [stage |-> "fps", rate |-> Rate(targetFps, 1)]

\* The frame-rate stage of buildFilterChain (processor.ts 388-405).
FrameRateStage(inp, targetFps, maxFrames) ==
    IF maxFrames # 0 /\ inp.fps > 0 /\ inp.duration > 0
    THEN LET totalFrames == (inp.duration * inp.fps) \div TimeDenom
         IN  IF totalFrames > maxFrames
             THEN LET effectiveFps == Rate(maxFrames * TimeDenom, inp.duration)
                      finalFps == RateMin(Rate(targetFps, 1), effectiveFps)
                  IN  [stage |-> "fps", rate |-> finalFps]
             ELSE [stage |-> "fps", rate |-> Rate(targetFps, 1)]
    ELSE [stage |-> "fps", rate |-> Rate(targetFps, 1)]

\* ChromaKeyStages without the test of the enabled flag: a configured colour
\* is keyed whether or not the chroma key is switched on.
ChromaKeyStages_Always(opts) ==
    IF Len(opts.chromaKey.color) > 0
    THEN <<[stage |-> "chromakey", color |-> replace(opts.chromaKey.color, "#", <<"0", "x">>),
            similarity |-> OrDefault(opts.chromaKey.similarity, 30),
            blend |-> OrDefault(opts.chromaKey.blend, 10)]>>
         \o <<[stage |-> "eq"]>>
    ELSE <<>>

\* The chroma-key, spill-suppression and correction stages (processor.ts 355-376).
ChromaKeyStages(opts) ==
    IF opts.chromaKey.enabled
    THEN LET color == replace(opts.chromaKey.color, "#", <<"0", "x">>)
             similarity == OrDefault(opts.chromaKey.similarity, 30)
             blend == OrDefault(opts.chromaKey.blend, 10)
             colorLower == toLowerCase(opts.chromaKey.color)
             despill ==
                 IF includes(colorLower, <<"0", "0", "f", "f", "0", "0">>)
                    \/ includes(colorLower, <<"0", "f", "0">>)
                 THEN <<[stage |-> "despill", type |-> "green"]>>
                 ELSE IF includes(colorLower, <<"0", "0", "0", "0", "f", "f">>)
                         \/ includes(colorLower, <<"0", "0", "f">>)
                      THEN <<[stage |-> "despill", type |-> "blue"]>>
                      ELSE <<>>
         IN  <<[stage |-> "chromakey", color |-> color,
                similarity |-> similarity, blend |-> blend]>>
             \o despill
             \o <<[stage |-> "eq"]>>
    ELSE <<>>

\* The custom crop stage (processor.ts 378-381).
CustomCropStage(opts) ==
    IF Len(opts.crop) > 0
    THEN <<[stage |-> "crop", width |-> opts.crop[1].width, height |-> opts.crop[1].height,
            x |-> opts.crop[1].x, y |-> opts.crop[1].y]>>
    ELSE <<>>

\* buildFilterChain with the frame-rate stage pushed before the scale stage.
buildFilterChain_FpsFirst(inp, targetWidth, targetHeight, targetFps, opts, maxFrames) ==
    ChromaKeyStages(opts)
    \o CustomCropStage(opts)
    \o <<FrameRateStage(inp, targetFps, maxFrames)>>
    \o <<[stage |-> "scale", width |-> targetWidth, height |-> targetHeight],
         [stage |-> "cropExact", width |-> targetWidth, height |-> targetHeight]>>

\* buildFilterChain (processor.ts 345-408): the stages in the order they are
\* pushed; the text is their comma-joined rendering.
buildFilterChain(inp, targetWidth, targetHeight, targetFps, opts, maxFrames) ==
    ChromaKeyStages(opts)
    \o CustomCropStage(opts)
    \o <<[stage |-> "scale", width |-> targetWidth, height |-> targetHeight],
         [stage |-> "cropExact", width |-> targetWidth, height |-> targetHeight]>>
    \o <<FrameRateStage(inp, targetFps, maxFrames)>>

\* buildInputArgs (processor.ts 328-340): the trim window, if any, as -ss and
\* -to before the input file.
buildInputArgs(inputPath, opts) ==
    (IF Len(opts.trim) > 0
     THEN <<[flag |-> "-ss", value |-> <<opts.trim[1].start>>],
            [flag |-> "-to", value |-> <<opts.trim[1].end>>]>>
     ELSE <<>>)
    \o <<[flag |-> "-i", value |-> inputPath]>>

\* The filter chain exportWebGIF builds itself (processor.ts 799-860) when
\* options.webGifResolution is not set: resolution 'original', no scale stage.
webGifFilterChain(inp, opts) ==
    ChromaKeyStages(opts)
    \o CustomCropStage(opts)
    \o <<[stage |-> "fps", rate |-> Rate(inp.fps, 1)]>>

\* --------------------------------------------------------------------- state
VARIABLES
    input,            \* VideoInput: [fps, duration, width, height, name]
    options,          \* ProcessingOptions: [chromaKey, crop, trim, segments]
    enabledFormats,   \* [defined, list]: the optional enabledFormats argument
    onProgress,       \* "absent" | "present" | "ipc": the optional progress callback
    encoder,          \* the external encoder and filesystem: free, or a fixed stub
    pc,               \* position of processVideo / of the running exporter
    idx,              \* index into FormatKeys of the for loop of processVideo
    results,          \* ExportResult[] of processVideo
    err,              \* the error thrown into the catch of processVideo
    attempt,          \* attempt counter of the running exporter, 0 when none runs
    params,           \* locals of the running exporter: fps, width, height, colors,
                      \* compressionLevel, and the filter and input arguments of its passes
    tempDir,          \* "none" | "exists" | "removed": outputDir/.temp
    rmCount,          \* number of fs.rm(tempDir) calls made
    palettes,         \* palette files present in tempDir
    artifact,         \* byte size of the file at the current outputPath, 0 if none
    notes,            \* progress notifications emitted for the current platform
    ffmpegLog,        \* encoder invocations of the run (recorded under a stub)
    run,              \* 1: first export request; 2: the same request repeated
    ref,              \* outcome of run 1, kept for the comparison with run 2
    fc,               \* buildFilterChain on its own: [args, chain], chain optional
    request,          \* the export request of the renderer: [formats, probe, window]
    sheets,           \* sprite-sheet files in the output directory: [name, size]
    calls,            \* overlapping processVideo calls on one directory: [pc, format, ok]
    temp,             \* their shared outputDir/.temp: [exists, files]
    store,            \* the renderer's store (useStore)
    ui,               \* the renderer outside the store: [electronAPI, pending, mounted, dep]
    preview           \* a generatePreview call: its position, its temp file, its outcome

vars == <<input, options, enabledFormats, onProgress, encoder, pc, idx, results, err,
          attempt, params, tempDir, rmCount, palettes, artifact, notes, ffmpegLog,
          run, ref, fc, request, sheets, calls, temp, store, ui, preview>>

NoTemp == [exists |-> FALSE, files |-> {}]

\* The store as created (part_003 46-69): options are defaultOptions, the five
\* emote platforms are enabled, nothing is loaded.
InitialStore ==
    [videoFile |-> <<>>, videoInfo |-> <<>>, outputDir |-> <<>>,
     options |-> [chromaKey |-> [enabled |-> FALSE], quality |-> "balanced", crop |-> <<>>],
     enabledFormats |-> {"twitch", "discord-sticker", "discord-emote", "7tv",
                         "vrc-spritesheet"},
     cropArea |-> <<>>, isProcessing |-> FALSE, results |-> <<>>]

\* No generatePreview call.
NoPreview ==
    [pc |-> "none", platform |-> "", locked |-> FALSE, file |-> FALSE, written |-> FALSE,
     failed |-> FALSE, unlinkFailed |-> FALSE, outcome |-> "none"]

\* No window: no request sent, no component mounted.
NoUi == [electronAPI |-> FALSE, pending |-> <<>>, mounted |-> FALSE, dep |-> FALSE]

\* The format key of the current iteration of the for loop of processVideo.
formatKey == FormatKeys[idx]

spec == EMOTE_SPECS[formatKey]

NoParams == [fps |-> 0, width |-> 0, height |-> 0, colors |-> 0, compressionLevel |-> 0,
             paletteFilter |-> <<>>, inputArgs |-> <<>>, gifFilter |-> <<>>, inputArgs2 |-> <<>>]

NoChromaKey == [enabled |-> FALSE, color |-> <<>>, similarity |-> 0, blend |-> 0]

\* ------------------------------------------------------------- environment
FreeEncoder == [mode |-> "free", fitFrom |-> 0, failKey |-> "", failPass |-> 0,
                unlinkFails |-> {}]

\* Exit codes ffmpeg can end with for pass `pass` of attempt `att` of platform k.
EncoderExits(k, att, pass) ==
    IF encoder.mode = "free"
    THEN {0, 1}
    ELSE {IF encoder.failKey = k /\ encoder.failPass = pass THEN 1 ELSE 0}

\* Byte sizes of the artifact ffmpeg can produce in attempt `att` of platform k:
\* the budget itself and one byte more (any size, for a platform with no budget).
ArtifactSizes(k, att) ==
    LET m == EMOTE_SPECS[k].maxSize
    IN  IF encoder.mode = "free"
        THEN {m, m + 1} \ {0}
        ELSE {IF att >= encoder.fitFrom /\ m > 0 THEN m ELSE m + 1}

\* Whether fs.stat of the artifact of platform k can fail.
StatFails(k) ==
    IF encoder.mode = "free"
    THEN BOOLEAN
    ELSE {encoder.failKey = k /\ encoder.failPass = 3}

\* Whether fs.unlink of the palette of attempt `att` of platform k fails (a
\* file another process still holds open): the filesystem of the run fails the
\* unlinks of the attempts in encoder.unlinkFails.
UnlinkFails(k, att) == att \in encoder.unlinkFails

\* Whether a call of the progress callback can throw.
\* A callback supplied by any caller ("present") may throw at any call; that
\* of the process-video handler ("ipc") sends to the window and throws when
\* the window has been destroyed.
CallbackThrows ==
    IF onProgress = "present" THEN BOOLEAN
    ELSE IF onProgress = "ipc" THEN {request.window = "destroyed"}
    ELSE {FALSE}

\* runFFmpeg (processor.ts 889-908) rejects with this message on a nonzero exit.
FFmpegError == "FFmpeg error"

StatError == "ENOENT: no such file or directory"

CallbackError == "progress callback error"

\* The message of processor.ts 542.
StickerBudgetError == "Discord sticker could not be optimized to 512KB limit after 15 attempts. Try a shorter video or lower quality source."

\* The invocation log after one more runFFmpeg call.
Logged(call) == IF encoder.mode = "stub" THEN Append(ffmpegLog, call) ELSE ffmpegLog

\* A progress callback that is never reached.
Notified_Dropped(note) == notes

\* onProgress?.(note): the notifications after the call.
Notified(note) == IF onProgress \in {"present", "ipc"} THEN Append(notes, note) ELSE notes

\* A throw inside the inner try of processVideo (processor.ts 222-280).
Throw(msg) == pc' = "catch" /\ err' = msg

Goto(label) == pc' = label /\ err' = err

\* ------------------------------------------------------- degradation ladders
\* Math.round(x * pct / 100) for a non-negative integer x.
RoundPct(x, pct) == (x * pct + 50) \div 100

\* StickerDegrade with the second colour step subtracting 64 instead of
\* setting the count to 64.
StickerDegrade_Subtract(p) ==
    IF p.fps > 8 THEN [p EXCEPT !.fps = p.fps - 2]
    ELSE IF p.colors > 96 THEN [p EXCEPT !.colors = Max(64, p.colors - 32)]
    ELSE IF p.fps > 6 THEN [p EXCEPT !.fps = p.fps - 1]
    ELSE IF p.width > 240 \/ p.height > 240
         THEN [p EXCEPT !.width = RoundPct(p.width, 88), !.height = RoundPct(p.height, 88)]
    ELSE IF p.colors > 64 THEN [p EXCEPT !.colors = p.colors - 64]
    ELSE IF p.fps > 4 THEN [p EXCEPT !.fps = p.fps - 1]
    ELSE [p EXCEPT !.width = RoundPct(p.width, 82), !.height = RoundPct(p.height, 82)]

\* StickerDegrade without its last resort: nothing is reduced once no step's
\* precondition holds.
StickerDegrade_NoLastResort(p) ==
    IF p.fps > 8 THEN [p EXCEPT !.fps = p.fps - 2]
    ELSE IF p.colors > 96 THEN [p EXCEPT !.colors = Max(64, p.colors - 32)]
    ELSE IF p.fps > 6 THEN [p EXCEPT !.fps = p.fps - 1]
    ELSE IF p.width > 240 \/ p.height > 240
         THEN [p EXCEPT !.width = RoundPct(p.width, 88), !.height = RoundPct(p.height, 88)]
    ELSE IF p.colors > 64 THEN [p EXCEPT !.colors = 64]
    ELSE IF p.fps > 4 THEN [p EXCEPT !.fps = p.fps - 1]
    ELSE p

\* The reduction of exportDiscordSticker after a failed attempt (processor.ts 513-531).
StickerDegrade(p) ==
    IF p.fps > 8 THEN [p EXCEPT !.fps = p.fps - 2]
    ELSE IF p.colors > 96 THEN [p EXCEPT !.colors = Max(64, p.colors - 32)]
    ELSE IF p.fps > 6 THEN [p EXCEPT !.fps = p.fps - 1]
    ELSE IF p.width > 240 \/ p.height > 240
         THEN [p EXCEPT !.width = RoundPct(p.width, 88), !.height = RoundPct(p.height, 88)]
    ELSE IF p.colors > 64 THEN [p EXCEPT !.colors = 64]
    ELSE IF p.fps > 4 THEN [p EXCEPT !.fps = p.fps - 1]
    ELSE [p EXCEPT !.width = RoundPct(p.width, 82), !.height = RoundPct(p.height, 82)]

\* EmoteDegrade with the scale factor of the shrink step inverted: 1.1 for 0.9.
EmoteDegrade_Grow(p) ==
    IF p.fps > 10 THEN [p EXCEPT !.fps = p.fps - 2]
    ELSE IF p.colors > 64 THEN [p EXCEPT !.colors = 64]
    ELSE IF p.width > 96 \/ p.height > 96
         THEN [p EXCEPT !.width = RoundPct(p.width, 110), !.height = RoundPct(p.height, 110)]
    ELSE IF p.fps > 8 THEN [p EXCEPT !.fps = p.fps - 1]
    ELSE [p EXCEPT !.width = RoundPct(p.width, 85), !.height = RoundPct(p.height, 85)]

\* The reduction of exportDiscordEmote after a failed attempt (processor.ts 606-620).
EmoteDegrade(p) ==
    IF p.fps > 10 THEN [p EXCEPT !.fps = p.fps - 2]
    ELSE IF p.colors > 64 THEN [p EXCEPT !.colors = 64]
    ELSE IF p.width > 96 \/ p.height > 96
         THEN [p EXCEPT !.width = RoundPct(p.width, 90), !.height = RoundPct(p.height, 90)]
    ELSE IF p.fps > 8 THEN [p EXCEPT !.fps = p.fps - 1]
    ELSE [p EXCEPT !.width = RoundPct(p.width, 85), !.height = RoundPct(p.height, 85)]

\* The initial settings of the two optimisation loops (processor.ts 463-467, 559-562).
InitialParams(k) ==
    IF k = "discord-sticker"
    THEN [fps |-> Min(input.fps, StickerFpsCap), width |-> EMOTE_SPECS[k].width,
          height |-> EMOTE_SPECS[k].height, colors |-> StickerInitialColors,
          compressionLevel |-> 9,
          paletteFilter |-> <<>>, inputArgs |-> <<>>, gifFilter |-> <<>>, inputArgs2 |-> <<>>]
    ELSE [fps |-> Min(input.fps, EmoteFpsCap), width |-> EMOTE_SPECS[k].width,
          height |-> EMOTE_SPECS[k].height, colors |-> EmoteInitialColors,
          compressionLevel |-> 0,
          paletteFilter |-> <<>>, inputArgs |-> <<>>, gifFilter |-> <<>>, inputArgs2 |-> <<>>]

\* maxAttempts of the loop of platform k (processor.ts 470, 565).
maxAttempts(k) == IF k = "discord-sticker" THEN StickerMaxAttempts ELSE EmoteMaxAttempts

\* Degrade with the frame-rate step of the sticker also lowering the colour
\* count.
Degrade_TwoSteps(k, p) ==
    IF k = "discord-sticker"
    THEN IF p.fps > 8
         THEN [p EXCEPT !.fps = p.fps - 2, !.colors = Max(64, p.colors - 32)]
         ELSE StickerDegrade(p)
    ELSE EmoteDegrade(p)

\* The reduction of the loop of platform k.
Degrade(k, p) == IF k = "discord-sticker" THEN StickerDegrade(p) ELSE EmoteDegrade(p)

IsLoopFormat(k) == k \in {"discord-sticker", "discord-emote"}

\* palettePath of the exporter of platform k; att is 0 for an exporter without a loop.
palettePath(k, att) == <<k, att>>

\* -------------------------------------------------------------- processVideo
\* processor.ts 187-207: results, mkdir of the temp directory, and the first
\* enabled segment written into options.trim.
ProcessVideoStart ==
    /\ pc = "init"
    /\ results' = <<>>
    /\ tempDir' = "exists"
    /\ LET enabledSegments == SelectSeq(options.segments, LAMBDA s : s.enabled)
       IN  options' = IF Len(enabledSegments) > 0
                      THEN [options EXCEPT !.trim =
                               <<[start |-> enabledSegments[1].startTime,
                                  end |-> enabledSegments[1].endTime]>>]
                      ELSE options
    /\ idx' = 0
    /\ Goto("for")
    /\ UNCHANGED <<input, enabledFormats, onProgress, encoder, attempt, params, rmCount,
                   palettes, artifact, notes, ffmpegLog, run, ref, fc, request, sheets,
                   calls, temp, store, ui, preview>>

\* processor.ts 211-215: the next entry of EMOTE_SPECS; a format that is not
\* enabled is skipped; after the last entry the loop ends.
ForNext ==
    /\ pc = "for"
    /\ IF idx = Len(FormatKeys)
       THEN Goto("rm") /\ UNCHANGED <<idx, notes, artifact>>
       ELSE /\ idx' = idx + 1
            /\ notes' = <<>>
            /\ artifact' = 0
            /\ IF enabledFormats.defined /\ FormatKeys[idx + 1] \notin enabledFormats.list
               THEN Goto("for")
               ELSE Goto("notifyStart")
    /\ UNCHANGED <<input, options, enabledFormats, onProgress, encoder, results, attempt,
                   params, tempDir, rmCount, palettes, ffmpegLog, run, ref, fc, request,
                   sheets, calls, temp, store, ui, preview>>

\* processor.ts 216-220: the notification before the inner try; a throw of the
\* callback lands in the outer catch.
NotifyStart ==
    /\ pc = "notifyStart"
    /\ notes' = Notified([format |-> spec.name, stage |-> "Processing", progress |-> 0])
    /\ \E throws \in CallbackThrows :
         IF throws THEN Goto("outerCatch") ELSE Goto("dispatch")
    /\ UNCHANGED <<input, options, enabledFormats, onProgress, encoder, idx, results,
                   attempt, params, tempDir, rmCount, palettes, artifact, ffmpegLog,
                   run, ref, fc, request, sheets, calls, temp, store, ui, preview>>

\* exportFormat (processor.ts 295-323): the switch on formatKey.
ExportFormat ==
    /\ pc = "dispatch"
    /\ IF IsLoopFormat(formatKey)
       THEN /\ attempt' = 0
            /\ params' = InitialParams(formatKey)
            /\ Goto("while")
       ELSE /\ attempt' = 1
            /\ params' = NoParams
            /\ IF formatKey = "vrc-spritesheet" THEN Goto("sheetExtract") ELSE Goto("palette")
    /\ UNCHANGED <<input, options, enabledFormats, onProgress, encoder, idx, results,
                   tempDir, rmCount, palettes, artifact, notes, ffmpegLog, run, ref, fc, request,
                   sheets, calls, temp, store, ui, preview>>

\* The notification an exporter sends through its onProgress parameter
\* (processor.ts 231-237).
ProgressNote(progress) == [format |-> spec.name, stage |-> "Processing", progress |-> progress]

\* The filter chain an exporter builds for a pass: the arguments exportTwitch
\* (processor.ts 425, 436), export7TV (649, 660) and the two loops (479, 490,
\* 574, 585) hand to buildFilterChain, and exportWebGIF's own chain (860).
PassFilter(k, p) ==
    CASE k = "twitch" ->
           buildFilterChain(input, EMOTE_SPECS[k].width, EMOTE_SPECS[k].height,
                            Min(input.fps, TwitchFpsCap), options, EMOTE_SPECS[k].maxFrames)
      [] k = "7tv" ->
           buildFilterChain(input, EMOTE_SPECS[k].width, EMOTE_SPECS[k].height,
                            input.fps, options, 0)
      [] k = "web-gif" -> webGifFilterChain(input, options)
      [] OTHER -> buildFilterChain(input, p.width, p.height, p.fps, options, 0)

\* ------------------------------------- exportTwitch, export7TV, exportWebGIF
\* Pass 1 of an exporter without a loop (processor.ts 424-431, 648-655, 863-869).
Palette ==
    /\ pc = "palette"
    /\ params' = [params EXCEPT !.paletteFilter = PassFilter(formatKey, params),
                                !.inputArgs = buildInputArgs(input.name, options)]
    /\ ffmpegLog' = Logged(<<formatKey, 1, 1>>)
    /\ \E exit \in EncoderExits(formatKey, 1, 1) :
         IF exit # 0
         THEN Throw(FFmpegError) /\ UNCHANGED palettes
         ELSE Goto("progress50") /\ palettes' = palettes \cup {palettePath(formatKey, 0)}
    /\ UNCHANGED <<input, options, enabledFormats, onProgress, encoder, idx, results,
                   attempt, tempDir, rmCount, artifact, notes, run, ref, fc, request,
                   sheets, calls, temp, store, ui, preview>>

\* onProgress?.(50) (processor.ts 433, 657, 749, 871).
Progress50 ==
    /\ pc = "progress50"
    /\ notes' = Notified(ProgressNote(50))
    /\ \E throws \in CallbackThrows :
         IF throws
         THEN Throw(CallbackError)
         ELSE IF formatKey = "vrc-spritesheet" THEN Goto("sheetTile") ELSE Goto("encode")
    /\ UNCHANGED <<input, options, enabledFormats, onProgress, encoder, idx, results,
                   attempt, params, tempDir, rmCount, palettes, artifact, ffmpegLog,
                   run, ref, fc, request, sheets, calls, temp, store, ui, preview>>

\* Pass 2 of an exporter without a loop (processor.ts 435-444, 659-668, 873-881).
Encode ==
    /\ pc = "encode"
    /\ params' = [params EXCEPT !.gifFilter = IF formatKey = "web-gif"
                                              THEN params.paletteFilter
                                              ELSE PassFilter(formatKey, params),
                                !.inputArgs2 = buildInputArgs(input.name, options)]
    /\ ffmpegLog' = Logged(<<formatKey, 1, 2>>)
    /\ \E exit \in EncoderExits(formatKey, 1, 2), size \in ArtifactSizes(formatKey, 1) :
         IF exit # 0
         THEN Throw(FFmpegError) /\ UNCHANGED artifact
         ELSE Goto("progress100") /\ artifact' = size
    /\ UNCHANGED <<input, options, enabledFormats, onProgress, encoder, idx, results,
                   attempt, tempDir, rmCount, palettes, notes, run, ref, fc, request,
                   sheets, calls, temp, store, ui, preview>>

\* onProgress?.(100) and the return of the exporter (processor.ts 446, 509-510,
\* 602-603, 631-632, 670, 785, 883).
Progress100 ==
    /\ pc = "progress100"
    /\ notes' = Notified(ProgressNote(100))
    /\ \E throws \in CallbackThrows :
         IF throws THEN Throw(CallbackError) ELSE Goto("exported")
    /\ UNCHANGED <<input, options, enabledFormats, onProgress, encoder, idx, results,
                   attempt, params, tempDir, rmCount, palettes, artifact, ffmpegLog,
                   run, ref, fc, request, sheets, calls, temp, store, ui, preview>>

\* ------------------------------- exportDiscordSticker, exportDiscordEmote
\* While with the loop condition attempt <= maxAttempts.
While_OffByOne ==
    /\ pc = "while"
    /\ IF attempt <= maxAttempts(formatKey)
       THEN attempt' = attempt + 1 /\ Goto("loopPalette")
       ELSE /\ UNCHANGED attempt
            /\ IF formatKey = "discord-sticker"
               THEN Throw(StickerBudgetError)
               ELSE Goto("progress100")
    /\ UNCHANGED <<input, options, enabledFormats, onProgress, encoder, idx, results,
                   params, tempDir, rmCount, palettes, artifact, notes, ffmpegLog,
                   run, ref, fc, request, sheets, calls, temp, store, ui, preview>>

\* The loop condition and attempt++ (processor.ts 472-473, 567-568); after the
\* last attempt the sticker throws (541-542) and the emote warns, notifies 100
\* and returns (630-632).
While ==
    /\ pc = "while"
    /\ IF attempt < maxAttempts(formatKey)
       THEN attempt' = attempt + 1 /\ Goto("loopPalette")
       ELSE /\ UNCHANGED attempt
            /\ IF formatKey = "discord-sticker"
               THEN Throw(StickerBudgetError)
               ELSE Goto("progress100")
    /\ UNCHANGED <<input, options, enabledFormats, onProgress, encoder, idx, results,
                   params, tempDir, rmCount, palettes, artifact, notes, ffmpegLog,
                   run, ref, fc, request, sheets, calls, temp, store, ui, preview>>

\* LoopPalette without the await of the encoder: the attempt goes on before
\* the palette pass has exited and written its file.
LoopPalette_NoAwait ==
    /\ pc = "loopPalette"
    /\ params' = [params EXCEPT !.paletteFilter = PassFilter(formatKey, params),
                                !.inputArgs = buildInputArgs(input.name, options),
                                !.gifFilter = <<>>,
                                !.inputArgs2 = <<>>]
    /\ ffmpegLog' = Logged(<<formatKey, attempt, 1>>)
    /\ Goto("loopProgress")
    /\ UNCHANGED <<input, options, enabledFormats, onProgress, encoder, idx, results,
                   attempt, tempDir, rmCount, palettes, artifact, notes, run, ref, fc,
                   request, sheets, calls, temp, store, ui, preview>>

\* Pass 1 of one attempt (processor.ts 476-485, 571-580); the filter and input
\* arguments of pass 2 are declared in this iteration and not yet evaluated.
LoopPalette ==
    /\ pc = "loopPalette"
    /\ params' = [params EXCEPT !.paletteFilter = PassFilter(formatKey, params),
                                !.inputArgs = buildInputArgs(input.name, options),
                                !.gifFilter = <<>>,
                                !.inputArgs2 = <<>>]
    /\ ffmpegLog' = Logged(<<formatKey, attempt, 1>>)
    /\ \E exit \in EncoderExits(formatKey, attempt, 1) :
         IF exit # 0
         THEN Throw(FFmpegError) /\ UNCHANGED palettes
         ELSE /\ Goto("loopProgress")
              /\ palettes' = palettes \cup {palettePath(formatKey, attempt)}
    /\ UNCHANGED <<input, options, enabledFormats, onProgress, encoder, idx, results,
                   attempt, tempDir, rmCount, artifact, notes, run, ref, fc, request,
                   sheets, calls, temp, store, ui, preview>>

\* LoopProgress with the settings reduced between the two passes of an attempt.
LoopProgress_Degrade ==
    /\ pc = "loopProgress"
    /\ notes' = Notified(ProgressNote(30 + attempt * 5))
    /\ params' = Degrade(formatKey, params)
    /\ \E throws \in CallbackThrows :
         IF throws THEN Throw(CallbackError) ELSE Goto("loopEncode")
    /\ UNCHANGED <<input, options, enabledFormats, onProgress, encoder, idx, results,
                   attempt, tempDir, rmCount, palettes, artifact, ffmpegLog,
                   run, ref, fc, request, sheets, calls, temp, store, ui, preview>>

\* onProgress?.(30 + attempt * 5) (processor.ts 487, 582).
LoopProgress ==
    /\ pc = "loopProgress"
    /\ notes' = Notified(ProgressNote(30 + attempt * 5))
    /\ \E throws \in CallbackThrows :
         IF throws THEN Throw(CallbackError) ELSE Goto("loopEncode")
    /\ UNCHANGED <<input, options, enabledFormats, onProgress, encoder, idx, results,
                   attempt, params, tempDir, rmCount, palettes, artifact, ffmpegLog,
                   run, ref, fc, request, sheets, calls, temp, store, ui, preview>>

\* LoopEncode with the encoder error swallowed: the loop goes on with the next
\* attempt.
LoopEncode_Retry ==
    /\ pc = "loopEncode"
    /\ params' = [params EXCEPT !.gifFilter = PassFilter(formatKey, params),
                                !.inputArgs2 = buildInputArgs(input.name, options)]
    /\ ffmpegLog' = Logged(<<formatKey, attempt, 2>>)
    /\ \E exit \in EncoderExits(formatKey, attempt, 2),
          size \in ArtifactSizes(formatKey, attempt) :
         IF exit # 0
         THEN Goto("while") /\ UNCHANGED artifact
         ELSE Goto("checkSize") /\ artifact' = size
    /\ UNCHANGED <<input, options, enabledFormats, onProgress, encoder, idx, results,
                   attempt, tempDir, rmCount, palettes, notes, run, ref, fc, request,
                   sheets, calls, temp, store, ui, preview>>

\* Pass 2 of one attempt (processor.ts 489-500, 584-593).
LoopEncode ==
    /\ pc = "loopEncode"
    /\ params' = [params EXCEPT !.gifFilter = PassFilter(formatKey, params),
                                !.inputArgs2 = buildInputArgs(input.name, options)]
    /\ ffmpegLog' = Logged(<<formatKey, attempt, 2>>)
    /\ \E exit \in EncoderExits(formatKey, attempt, 2),
          size \in ArtifactSizes(formatKey, attempt) :
         IF exit # 0
         THEN Throw(FFmpegError) /\ UNCHANGED artifact
         ELSE Goto("checkSize") /\ artifact' = size
    /\ UNCHANGED <<input, options, enabledFormats, onProgress, encoder, idx, results,
                   attempt, tempDir, rmCount, palettes, notes, run, ref, fc, request,
                   sheets, calls, temp, store, ui, preview>>

\* CheckSize without the unlink of the palette of the attempt that missed.
CheckSize_NoUnlink ==
    /\ pc = "checkSize"
    /\ \E fails \in StatFails(formatKey) :
         IF fails
         THEN Throw(StatError) /\ UNCHANGED <<params, palettes>>
         ELSE IF artifact <= spec.maxSize
              THEN Goto("progress100") /\ UNCHANGED <<params, palettes>>
              ELSE /\ params' = Degrade(formatKey, params)
                   /\ UNCHANGED palettes
                   /\ Goto("while")
    /\ UNCHANGED <<input, options, enabledFormats, onProgress, encoder, idx, results,
                   attempt, tempDir, rmCount, artifact, notes, ffmpegLog, run, ref, fc, request,
                   sheets, calls, temp, store, ui, preview>>

\* fs.stat of the artifact and the size check; on a miss the settings are
\* reduced and the palette of the attempt is unlinked, an error of the unlink
\* being ignored (processor.ts 502-538, 595-627).
CheckSize ==
    /\ pc = "checkSize"
    /\ \E fails \in StatFails(formatKey) :
         IF fails
         THEN Throw(StatError) /\ UNCHANGED <<params, palettes>>
         ELSE IF artifact <= spec.maxSize
              THEN Goto("progress100") /\ UNCHANGED <<params, palettes>>
              ELSE /\ params' = Degrade(formatKey, params)
                   /\ palettes' = IF UnlinkFails(formatKey, attempt)
                                  THEN palettes
                                  ELSE palettes \ {palettePath(formatKey, attempt)}
                   /\ Goto("while")
    /\ UNCHANGED <<input, options, enabledFormats, onProgress, encoder, idx, results,
                   attempt, tempDir, rmCount, artifact, notes, ffmpegLog, run, ref, fc, request,
                   sheets, calls, temp, store, ui, preview>>

\* ------------------------------------------------------ exportVRCSpriteSheet
\* Math.round of the fraction n / d (n >= 0, d > 0): halves round up.
Round(n, d) == (2 * n + d) \div (2 * d)

\* Math.ceil(Math.sqrt(n)) for an integer n >= 0.
CeilSqrt(n) == CHOOSE g \in 0..n : g * g >= n /\ (g = 0 \/ (g - 1) * (g - 1) < n)

\* Math.floor(Math.sqrt(n)) for an integer n >= 0.
FloorSqrt(n) == CHOOSE g \in 0..n : g * g <= n /\ (g + 1) * (g + 1) > n

\* SheetPlan with the grid side rounded down instead of up.
SheetPlan_FloorSqrt(inp) ==
    LET sourceTotalFrames == (inp.duration * inp.fps) \div TimeDenom
        totalFrames == Min(sourceTotalFrames, SheetMaxFrames)
        gridSize == FloorSqrt(totalFrames)
    IN  [targetFps |-> IF sourceTotalFrames > SheetMaxFrames
                       THEN Round(SheetMaxFrames * TimeDenom, inp.duration)
                       ELSE inp.fps,
         totalFrames |-> totalFrames,
         gridSize |-> gridSize,
         frameSize |-> IF gridSize = 0 THEN "Infinity" ELSE SheetSize \div gridSize]

\* The frame count, rate, grid side and cell size exportVRCSpriteSheet
\* computes from the source metadata (processor.ts 683-698). 1024 / 0 is
\* Infinity in the code.
SheetPlan(inp) ==
    LET sourceTotalFrames == (inp.duration * inp.fps) \div TimeDenom
        targetFps == IF sourceTotalFrames > SheetMaxFrames
                     THEN Round(SheetMaxFrames * TimeDenom, inp.duration)
                     ELSE inp.fps
        totalFrames == Min(sourceTotalFrames, SheetMaxFrames)
        gridSize == CeilSqrt(totalFrames)
        frameSize == IF gridSize = 0 THEN "Infinity" ELSE SheetSize \div gridSize
    IN  [targetFps |-> targetFps, totalFrames |-> totalFrames, gridSize |-> gridSize,
         frameSize |-> frameSize]

\* Index of the last occurrence of character ch in s, 0 when there is none.
lastIndexOf(s, ch) ==
    IF \E i \in 1..Len(s) : s[i] = ch
    THEN CHOOSE i \in 1..Len(s) : s[i] = ch /\ \A j \in (i + 1)..Len(s) : s[j] # ch
    ELSE 0

\* path.extname: from the last dot on (none when there is no dot or the name
\* starts with its only dot).
extname(s) ==
    IF lastIndexOf(s, ".") > 1 THEN SubSeq(s, lastIndexOf(s, "."), Len(s)) ELSE <<>>

\* path.basename(s, ext): the name without the extension ext.
basename(s, ext) == SubSeq(s, 1, Len(s) - Len(ext))

\* baseName of processVideo (processor.ts 188).
baseName == basename(input.name, extname(input.name))

SheetKeyChars == <<"v", "r", "c", "-", "s", "p", "r", "i", "t", "e", "s", "h", "e", "e", "t">>

\* basename.split('_').slice(0, -1).join('_') (processor.ts 771-773): the text
\* before the last underscore, empty when there is none.
dropLastPart(s) == SubSeq(s, 1, lastIndexOf(s, "_") - 1)

\* The frames the extraction writes (processor.ts 739-747): its filter chain
\* has no frame-rate stage and no frame limit, so with -vsync 0 every frame of
\* the source, or of the trimmed range when -ss/-to are given, becomes a file.
ExtractedFrames(inp, opts) ==
    IF Len(opts.trim) > 0
    THEN (Max(0, Min(opts.trim[1].end, inp.duration) - opts.trim[1].start) * inp.fps)
             \div TimeDenom
    ELSE (inp.duration * inp.fps) \div TimeDenom

\* The rate of the frames the extraction writes: that of the source, since
\* the extraction resamples nothing (processor.ts 706-747).
ExtractedRate(inp) == inp.fps

\* The frames directory and the extraction of the frames (processor.ts 683-747).
SheetExtract ==
    /\ pc = "sheetExtract"
    /\ params' = SheetPlan(input)
    /\ ffmpegLog' = Logged(<<formatKey, 1, 1>>)
    /\ \E exit \in EncoderExits(formatKey, 1, 1) :
         IF exit # 0 THEN Throw(FFmpegError) ELSE Goto("progress50")
    /\ UNCHANGED <<input, options, enabledFormats, onProgress, encoder, idx, results,
                   attempt, tempDir, rmCount, palettes, artifact, notes,
                   run, ref, fc, request, sheets, calls, temp, store, ui, preview>>

\* The tiling of the frames into the sheet and the rename of the sheet
\* (processor.ts 751-778).
\* fs.rename(outputPath, newPath): the new name replaces a file of that name.
Renamed(dir, name, size) ==
    {f \in dir : f.name # name} \cup {[name |-> name, size |-> size]}

SheetTile ==
    /\ pc = "sheetTile"
    /\ ffmpegLog' = Logged(<<formatKey, 1, 2>>)
    /\ \E exit \in EncoderExits(formatKey, 1, 2), size \in ArtifactSizes(formatKey, 1) :
         IF exit # 0
         THEN Throw(FFmpegError) /\ UNCHANGED <<artifact, params, sheets>>
         ELSE /\ Goto("progress100")
              /\ artifact' = size
              /\ LET actualFrames == ExtractedFrames(input, options)
                     outputBase == baseName \o <<"_">> \o SheetKeyChars
                     newFilename == [base |-> dropLastPart(outputBase),
                                     frames |-> actualFrames,
                                     fps |-> params.targetFps,
                                     ext |-> "png"]
                 IN  /\ params' = [targetFps |-> params.targetFps,
                                   totalFrames |-> params.totalFrames,
                                   gridSize |-> params.gridSize,
                                   frameSize |-> params.frameSize,
                                   actualFrames |-> actualFrames,
                                   newFilename |-> newFilename]
                     /\ sheets' = Renamed(sheets, newFilename, size)
    /\ UNCHANGED <<input, options, enabledFormats, onProgress, encoder, idx, results,
                   attempt, tempDir, rmCount, palettes, notes, run, ref, fc, request,
                   calls, temp, store, ui, preview>>

\* ----------------------------------------------- processVideo, after export
\* processor.ts 240-265: the exporter has returned (its locals are gone);
\* fs.stat of the file written and the success result.
\* s.startsWith(prefix)
startsWith(s, prefix) ==
    Len(prefix) <= Len(s) /\ SubSeq(s, 1, Len(prefix)) = prefix

\* The predicate of files.find (processor.ts 248-253) on a sprite-sheet file of
\* the output directory: the name starts with `${baseName}_` and ends with the
\* platform's extension; every sheet name contains 'frames' and 'fps'.
matchingFile(f) ==
    /\ f.name.ext = "png"
    /\ \/ f.name.base = baseName
       \/ startsWith(f.name.base, baseName \o <<"_">>)

\* The files actualPath can name (processor.ts 242-256): for a sprite sheet the
\* first matching entry of fs.readdir, whose order the filesystem decides; the
\* platform's outputPath otherwise.
NoFile == [name |-> [base |-> <<>>, frames |-> 0, fps |-> 0, ext |-> ""], size |-> 0]

ActualPaths ==
    IF formatKey = "vrc-spritesheet" /\ {f \in sheets : matchingFile(f)} # {}
    THEN {f \in sheets : matchingFile(f)}
    ELSE {NoFile}

RecordResult ==
    /\ pc = "exported"
    /\ \E fails \in StatFails(formatKey), f \in ActualPaths :
         IF fails
         THEN Throw(StatError) /\ UNCHANGED results
         ELSE /\ results' = Append(results,
                     [format |-> spec.name, path |-> formatKey,
                      file |-> IF formatKey = "vrc-spritesheet" THEN <<f.name>> ELSE <<>>,
                      size |-> IF formatKey = "vrc-spritesheet" THEN f.size ELSE artifact,
                      success |-> TRUE, error |-> <<>>])
              /\ Goto("notifyComplete")
    /\ attempt' = 0
    /\ params' = NoParams
    /\ UNCHANGED <<input, options, enabledFormats, onProgress, encoder, idx, tempDir,
                   rmCount, palettes, artifact, notes, ffmpegLog, run, ref, fc, request,
                   sheets, calls, temp, store, ui, preview>>

\* processor.ts 267-271: the notification after results.push, still inside
\* the inner try.
NotifyComplete ==
    /\ pc = "notifyComplete"
    /\ notes' = Notified([format |-> spec.name, stage |-> "Complete", progress |-> 100])
    /\ \E throws \in CallbackThrows :
         IF throws THEN Throw(CallbackError) ELSE Goto("for")
    /\ UNCHANGED <<input, options, enabledFormats, onProgress, encoder, idx, results,
                   attempt, params, tempDir, rmCount, palettes, artifact, ffmpegLog,
                   run, ref, fc, request, sheets, calls, temp, store, ui, preview>>

\* processor.ts 272-280: the catch of the inner try pushes a failed result
\* (the locals of the exporter that threw are gone).
InnerCatch ==
    /\ pc = "catch"
    /\ results' = Append(results,
           [format |-> spec.name, path |-> "", file |-> <<>>, size |-> 0,
            success |-> FALSE, error |-> <<err>>])
    /\ pc' = "for"
    /\ err' = ""
    /\ attempt' = 0
    /\ params' = NoParams
    /\ UNCHANGED <<input, options, enabledFormats, onProgress, encoder, idx, tempDir,
                   rmCount, palettes, artifact, notes, ffmpegLog, run, ref, fc, request,
                   sheets, calls, temp, store, ui, preview>>

\* processor.ts 283-284 and 289: fs.rm of the temp directory, then the return.
Cleanup ==
    /\ pc = "rm"
    /\ tempDir' = "removed"
    /\ rmCount' = rmCount + 1
    /\ palettes' = {}
    /\ Goto("done")
    /\ UNCHANGED <<input, options, enabledFormats, onProgress, encoder, idx, results,
                   attempt, params, artifact, notes, ffmpegLog, run, ref, fc, request,
                   sheets, calls, temp, store, ui, preview>>

\* processor.ts 285-289: the outer catch logs the error, then the return.
OuterCatch ==
    /\ pc = "outerCatch"
    /\ Goto("done")
    /\ UNCHANGED <<input, options, enabledFormats, onProgress, encoder, idx, results,
                   attempt, params, tempDir, rmCount, palettes, artifact, notes,
                   ffmpegLog, run, ref, fc, request, sheets, calls, temp, store, ui,
                   preview>>

\* ------------------------------------------------------------ specification
NoOptions == [chromaKey |-> NoChromaKey, crop |-> <<>>, trim |-> <<>>, segments |-> <<>>]

Green == <<"#", "0", "0", "F", "F", "0", "0">>

\* The option bags of the export runs: none set; chroma key, crop, trim and
\* two segments of which the second is enabled.
MainOptions ==
    {NoOptions,
     [chromaKey |-> [enabled |-> TRUE, color |-> Green, similarity |-> 30, blend |-> 10],
      crop |-> <<[x |-> 0, y |-> 0, width |-> 100, height |-> 100]>>,
      trim |-> <<[start |-> 0, end |-> 20]>>,
      segments |-> <<[startTime |-> 0, endTime |-> 5, enabled |-> FALSE],
                     [startTime |-> 5, endTime |-> 10, enabled |-> TRUE]>>]}

\* File names of the sources: one whose base name holds an underscore.
NameAB == <<"a", "_", "b", ".", "m", "p", "4">>

NameClip == <<"c", "l", "i", "p", ".", "m", "p", "4">>

\* The sources of the export runs: 2.1 s at 30 fps and 30 s at 6 fps.
MainInputs ==
    {[fps |-> 30, duration |-> 21, width |-> 640, height |-> 480, name |-> NameAB],
     [fps |-> 6, duration |-> 300, width |-> 640, height |-> 480, name |-> NameClip]}

EnabledChoices ==
    {[defined |-> TRUE, list |-> S] : S \in {T \in SUBSET KeySet : Cardinality(T) <= MaxEnabled}}

NoFc == [args |-> <<>>, chain |-> <<>>]

\* No request of the renderer: processVideo is called directly.
NoRequest == [formats |-> {}, probe |-> <<>>, window |-> "none"]

Init ==
    /\ input \in MainInputs
    /\ options \in MainOptions
    /\ enabledFormats \in EnabledChoices
    /\ onProgress \in {"absent", "present"}
    /\ encoder = FreeEncoder
    /\ pc = "init"
    /\ idx = 0
    /\ results = <<>>
    /\ err = ""
    /\ attempt = 0
    /\ params = NoParams
    /\ tempDir = "none"
    /\ rmCount = 0
    /\ palettes = {}
    /\ artifact = 0
    /\ notes = <<>>
    /\ ffmpegLog = <<>>
    /\ run = 1
    /\ ref = <<>>
    /\ fc = NoFc
    /\ request = NoRequest
    /\ sheets = {}
    /\ calls = <<>>
    /\ temp = NoTemp
    /\ store = InitialStore
    /\ ui = NoUi
    /\ preview = NoPreview

Next ==
    \/ ProcessVideoStart
    \/ ForNext
    \/ NotifyStart
    \/ ExportFormat
    \/ Palette
    \/ Progress50
    \/ Encode
    \/ Progress100
    \/ While
    \/ LoopPalette
    \/ LoopProgress
    \/ LoopEncode
    \/ CheckSize
    \/ SheetExtract
    \/ SheetTile
    \/ RecordResult
    \/ NotifyComplete
    \/ InnerCatch
    \/ Cleanup
    \/ OuterCatch

Spec == Init /\ [][Next]_vars

\* ------------------------------------------- a filesystem that fails unlinks
\* The filesystems of the runs below: no unlink fails, the unlink of the first
\* attempt fails, those of the second and third attempt fail, every unlink
\* fails.
UnlinkOracles == {{}, {1}, {2, 3}, 1..StickerMaxAttempts}

\* The platforms of a run: one of the two loops and one other platform.
LoopAndOther ==
    {{k, o} : k \in {"discord-sticker", "discord-emote"},
              o \in KeySet \ {"discord-sticker", "discord-emote"}}

\* processVideo called with a callback, on a filesystem whose unlink of a
\* palette can fail.
InitUnlink ==
    /\ input \in MainInputs
    /\ options = NoOptions
    /\ enabledFormats \in {[defined |-> TRUE, list |-> S] : S \in LoopAndOther}
    /\ onProgress = "present"
    /\ encoder \in {[FreeEncoder EXCEPT !.unlinkFails = S] : S \in UnlinkOracles}
    /\ pc = "init"
    /\ idx = 0
    /\ results = <<>>
    /\ err = ""
    /\ attempt = 0
    /\ params = NoParams
    /\ tempDir = "none"
    /\ rmCount = 0
    /\ palettes = {}
    /\ artifact = 0
    /\ notes = <<>>
    /\ ffmpegLog = <<>>
    /\ run = 1
    /\ ref = <<>>
    /\ fc = NoFc
    /\ request = NoRequest
    /\ sheets = {}
    /\ calls = <<>>
    /\ temp = NoTemp
    /\ store = InitialStore
    /\ ui = NoUi
    /\ preview = NoPreview

SpecUnlink == InitUnlink /\ [][Next]_vars

\* ---------------------------------------------- the ladders on their own
\* The sources the ladders start from: every frame rate up to MaxSourceFps.
LadderInputs ==
    {[fps |-> f, duration |-> 21, width |-> 640, height |-> 480, name |-> NameClip] :
        f \in 0..MaxSourceFps}

\* One of the two loops, before its first statement.
InitLadder ==
    /\ input \in LadderInputs
    /\ options = NoOptions
    /\ enabledFormats = [defined |-> FALSE, list |-> {}]
    /\ onProgress = "absent"
    /\ encoder = FreeEncoder
    /\ pc = "ladder"
    /\ idx \in {i \in 1..Len(FormatKeys) : IsLoopFormat(FormatKeys[i])}
    /\ results = <<>>
    /\ err = ""
    /\ attempt = 0
    /\ params = NoParams
    /\ tempDir = "none"
    /\ rmCount = 0
    /\ palettes = {}
    /\ artifact = 0
    /\ notes = <<>>
    /\ ffmpegLog = <<>>
    /\ run = 1
    /\ ref = <<>>
    /\ fc = NoFc
    /\ request = NoRequest
    /\ sheets = {}
    /\ calls = <<>>
    /\ temp = NoTemp
    /\ store = InitialStore
    /\ ui = NoUi
    /\ preview = NoPreview

\* The initial settings of the loop (processor.ts 463-467, 559-562).
CallInitialParams ==
    /\ pc = "ladder"
    /\ params' = InitialParams(formatKey)
    /\ pc' = "degrade"
    /\ UNCHANGED <<input, options, enabledFormats, onProgress, encoder, idx, results, err,
                   attempt, tempDir, rmCount, palettes, artifact, notes, ffmpegLog,
                   run, ref, fc, request, sheets, calls, temp, store, ui, preview>>

\* The reduction after an attempt that missed the budget (processor.ts 513-531,
\* 606-620), applied once per attempt of the loop.
CallDegrade ==
    /\ pc = "degrade"
    /\ attempt < maxAttempts(formatKey)
    /\ attempt' = attempt + 1
    /\ params' = Degrade(formatKey, params)
    /\ UNCHANGED <<input, options, enabledFormats, onProgress, encoder, pc, idx, results, err,
                   tempDir, rmCount, palettes, artifact, notes, ffmpegLog,
                   run, ref, fc, request, sheets, calls, temp, store, ui, preview>>

NextLadder ==
    \/ CallInitialParams
    \/ CallDegrade

SpecLadder == InitLadder /\ [][NextLadder]_vars

\* ------------------------------------------------ the same request repeated
\* The outcome of a finished run of processVideo that a caller can observe:
\* the encoder invocations made, the result list returned and the state of
\* the temp directory.
Outcome == [results |-> results, ffmpegLog |-> ffmpegLog, tempDir |-> tempDir,
            rmCount |-> rmCount]

\* The process-video handler is invoked again with the same arguments after
\* the first run (made without a progress callback) has returned: the second
\* run has any progress callback, against the same deterministic encoder stub.
Rerun ==
    /\ pc = "done"
    /\ run = 1
    /\ encoder.mode = "stub"
    /\ run' = 2
    /\ ref' = <<Outcome>>
    /\ onProgress' \in {"absent", "present"}
    /\ pc' = "init"
    /\ idx' = 0
    /\ results' = <<>>
    /\ err' = ""
    /\ tempDir' = "none"
    /\ rmCount' = 0
    /\ palettes' = {}
    /\ artifact' = 0
    /\ notes' = <<>>
    /\ ffmpegLog' = <<>>
    /\ UNCHANGED <<input, options, enabledFormats, encoder, attempt, params, fc, request, sheets,
                   calls, temp, store, ui, preview>>

\* Attempts from which a stub's artifact fits the budget: every attempt, from
\* the second attempt on, never.
StubFitFrom == {1, 2, StickerMaxAttempts + 1}

\* Deterministic encoder stubs: the artifact of attempt a fits the budget iff
\* a >= fitFrom; pass failPass of platform failKey exits nonzero (pass 3: the
\* fs.stat of the artifact fails).
Stubs ==
    {[mode |-> "stub", fitFrom |-> n, failKey |-> "", failPass |-> 0, unlinkFails |-> {}] :
        n \in StubFitFrom}
    \cup {[mode |-> "stub", fitFrom |-> n, failKey |-> k, failPass |-> p, unlinkFails |-> {}] :
             n \in StubFitFrom, k \in KeySet, p \in 1..3}

InitReplay ==
    /\ input = [fps |-> 30, duration |-> 21, width |-> 640, height |-> 480, name |-> NameAB]
    /\ options = NoOptions
    /\ enabledFormats \in EnabledChoices
    /\ onProgress = "absent"
    /\ encoder \in Stubs
    /\ pc = "init"
    /\ idx = 0
    /\ results = <<>>
    /\ err = ""
    /\ attempt = 0
    /\ params = NoParams
    /\ tempDir = "none"
    /\ rmCount = 0
    /\ palettes = {}
    /\ artifact = 0
    /\ notes = <<>>
    /\ ffmpegLog = <<>>
    /\ run = 1
    /\ ref = <<>>
    /\ fc = NoFc
    /\ request = NoRequest
    /\ sheets = {}
    /\ calls = <<>>
    /\ temp = NoTemp
    /\ store = InitialStore
    /\ ui = NoUi
    /\ preview = NoPreview

NextReplay == Next \/ Rerun

SpecReplay == InitReplay /\ [][NextReplay]_vars

\* ------------------------------------------- the process-video request path
\* What ffprobe reports for the file of a request: its exit code, whether the
\* output lists a video stream, r_frame_rate as numerator and denominator,
\* and the duration (0 when neither the stream nor the format carries one).
Probes ==
    {[exit |-> e, hasStream |-> h, rate |-> r, duration |-> d] :
        e \in {0, 1}, h \in BOOLEAN, r \in {<<30, 1>>, <<2997, 100>>, <<0, 1>>}, d \in {0, 21}}

\* The requests of the renderer: the formats left selected and compatible
\* (ProcessButton.tsx 218-221), the probe outcome of the file, and the state of
\* the main window while the request is served.
Requests ==
    {[formats |-> S, probe |-> p, window |-> w] :
        S \in {T \in SUBSET KeySet : Cardinality(T) <= MaxEnabled},
        p \in Probes,
        w \in {"open", "destroyed"}}

\* The input before getVideoInfo has resolved.
NoInput == [fps |-> 0, duration |-> 0, width |-> 0, height |-> 0, name |-> <<>>]

\* handleProcess of the export button (ProcessButton.tsx 225-258): nothing is
\* sent without a compatible format; otherwise process-video is invoked with
\* the selected formats.
HandleProcess ==
    /\ pc = "button"
    /\ pc' = IF request.formats = {} THEN "idle" ELSE "probe"
    /\ UNCHANGED <<input, options, enabledFormats, onProgress, encoder, idx, results, err,
                   attempt, params, tempDir, rmCount, palettes, artifact, notes,
                   ffmpegLog, run, ref, fc, request, sheets, calls, temp, store, ui,
                   preview>>

ProbeError == "Failed to get video info"

NoStreamError == "No video stream found in file"

\* GetVideoInfo without the test of the prober's exit code.
GetVideoInfo_IgnoreExit ==
    /\ pc = "probe"
    /\ IF ~request.probe.hasStream
       THEN pc' = "rejected" /\ err' = NoStreamError /\ UNCHANGED <<input, onProgress>>
       ELSE /\ input' = [fps |-> Round(request.probe.rate[1], request.probe.rate[2]),
                         duration |-> request.probe.duration,
                         width |-> 640, height |-> 480, name |-> NameClip]
            /\ onProgress' = "ipc"
            /\ pc' = "init"
            /\ err' = err
    /\ enabledFormats' = [defined |-> FALSE, list |-> {}]
    /\ UNCHANGED <<options, encoder, idx, results, attempt, params, tempDir, rmCount,
                   palettes, artifact, notes, ffmpegLog, run, ref, fc, request, sheets,
                   calls, temp, store, ui, preview>>

\* The process-video handler (part_009 158-186) up to its call of
\* processVideo: getVideoInfo (processor.ts 20-94) rejects on a nonzero exit
\* of the prober and on a missing video stream, and the handler rethrows;
\* otherwise processVideo is called with the rounded rate and the duration,
\* with the callback that sends to the window and without enabledFormats.
GetVideoInfo ==
    /\ pc = "probe"
    /\ IF request.probe.exit # 0
       THEN pc' = "rejected" /\ err' = ProbeError /\ UNCHANGED <<input, onProgress>>
       ELSE IF ~request.probe.hasStream
            THEN pc' = "rejected" /\ err' = NoStreamError /\ UNCHANGED <<input, onProgress>>
            ELSE /\ input' = [fps |-> Round(request.probe.rate[1], request.probe.rate[2]),
                              duration |-> request.probe.duration,
                              width |-> 640, height |-> 480, name |-> NameClip]
                 /\ onProgress' = "ipc"
                 /\ pc' = "init"
                 /\ err' = err
    /\ enabledFormats' = [defined |-> FALSE, list |-> {}]
    /\ UNCHANGED <<options, encoder, idx, results, attempt, params, tempDir, rmCount,
                   palettes, artifact, notes, ffmpegLog, run, ref, fc, request, sheets,
                   calls, temp, store, ui, preview>>

InitHandler ==
    /\ request \in Requests
    /\ sheets = {}
    /\ calls = <<>>
    /\ temp = NoTemp
    /\ store = InitialStore
    /\ ui = NoUi
    /\ preview = NoPreview
    /\ input = NoInput
    /\ options = NoOptions
    /\ enabledFormats = [defined |-> FALSE, list |-> {}]
    /\ onProgress = "absent"
    /\ encoder \in Stubs
    /\ pc = "button"
    /\ idx = 0
    /\ results = <<>>
    /\ err = ""
    /\ attempt = 0
    /\ params = NoParams
    /\ tempDir = "none"
    /\ rmCount = 0
    /\ palettes = {}
    /\ artifact = 0
    /\ notes = <<>>
    /\ ffmpegLog = <<>>
    /\ run = 1
    /\ ref = <<>>
    /\ fc = NoFc

NextHandler ==
    \/ HandleProcess
    \/ GetVideoInfo
    \/ Next

SpecHandler == InitHandler /\ [][NextHandler]_vars

\* ------------------------------------------------ buildFilterChain on its own
\* Frame budgets drawn: none, Twitch's 60, the sprite sheet's 64.
FilterMaxFrames == {0, EMOTE_SPECS["twitch"].maxFrames, SheetMaxFrames}

\* The option bags of the calls: none set; chroma key on with a crop inside the
\* 640x480 source; chroma key configured but switched off, with the same crop;
\* a crop of width 0; a crop that reaches beyond the right edge of the source.
FilterOptions ==
    {NoOptions,
     [chromaKey |-> [enabled |-> TRUE, color |-> Green, similarity |-> 0, blend |-> 0],
      crop |-> <<[x |-> 10, y |-> 20, width |-> 100, height |-> 100]>>,
      trim |-> <<>>, segments |-> <<>>],
     [chromaKey |-> [enabled |-> FALSE, color |-> Green, similarity |-> 30, blend |-> 10],
      crop |-> <<[x |-> 10, y |-> 20, width |-> 100, height |-> 100]>>,
      trim |-> <<>>, segments |-> <<>>],
     [chromaKey |-> NoChromaKey,
      crop |-> <<[x |-> 10, y |-> 20, width |-> 0, height |-> 100]>>,
      trim |-> <<>>, segments |-> <<>>],
     [chromaKey |-> NoChromaKey,
      crop |-> <<[x |-> 600, y |-> 0, width |-> 100, height |-> 100]>>,
      trim |-> <<>>, segments |-> <<>>]}

InitFilter ==
    /\ input \in {[fps |-> f, duration |-> d, width |-> 640, height |-> 480, name |-> NameClip] :
                     f \in 0..MaxSourceFps, d \in 0..MaxDuration}
    /\ options \in FilterOptions
    /\ fc \in {[args |-> <<[targetWidth |-> 112, targetHeight |-> 112, targetFps |-> t,
                            maxFrames |-> m]>>,
                chain |-> <<>>] : t \in 1..MaxSourceFps, m \in FilterMaxFrames}
    /\ pc = "filter"
    /\ enabledFormats = [defined |-> FALSE, list |-> {}]
    /\ onProgress = "absent"
    /\ encoder = FreeEncoder
    /\ idx = 0
    /\ results = <<>>
    /\ err = ""
    /\ attempt = 0
    /\ params = NoParams
    /\ tempDir = "none"
    /\ rmCount = 0
    /\ palettes = {}
    /\ artifact = 0
    /\ notes = <<>>
    /\ ffmpegLog = <<>>
    /\ run = 1
    /\ ref = <<>>
    /\ request = NoRequest
    /\ sheets = {}
    /\ calls = <<>>
    /\ temp = NoTemp
    /\ store = InitialStore
    /\ ui = NoUi
    /\ preview = NoPreview

\* One call of buildFilterChain with the arguments drawn.
CallBuildFilterChain ==
    /\ pc = "filter"
    /\ fc' = [fc EXCEPT !.chain =
                 <<buildFilterChain(input, fc.args[1].targetWidth, fc.args[1].targetHeight,
                                    fc.args[1].targetFps, options, fc.args[1].maxFrames)>>]
    /\ pc' = "filterDone"
    /\ UNCHANGED <<input, options, enabledFormats, onProgress, encoder, idx, results, err,
                   attempt, params, tempDir, rmCount, palettes, artifact, notes,
                   ffmpegLog, run, ref, request, sheets, calls, temp, store, ui,
                   preview>>

\* The call of buildFilterChain that exportTwitch makes for its palette pass
\* (processor.ts 420-425): target rate min(fps, 30), Twitch's size and budget.
CallExportTwitchFilter ==
    /\ pc = "filter"
    /\ LET twitch == EMOTE_SPECS["twitch"]
           targetFps == Min(input.fps, TwitchFpsCap)
       IN  fc' = [args |-> <<[targetWidth |-> twitch.width, targetHeight |-> twitch.height,
                              targetFps |-> targetFps, maxFrames |-> twitch.maxFrames]>>,
                  chain |-> <<buildFilterChain(input, twitch.width, twitch.height, targetFps,
                                               options, twitch.maxFrames)>>]
    /\ pc' = "twitchFilterDone"
    /\ UNCHANGED <<input, options, enabledFormats, onProgress, encoder, idx, results, err,
                   attempt, params, tempDir, rmCount, palettes, artifact, notes,
                   ffmpegLog, run, ref, request, sheets, calls, temp, store, ui,
                   preview>>

\* The grid computation of exportVRCSpriteSheet (processor.ts 683-698) for the
\* source drawn.
CallSheetPlan ==
    /\ pc = "filter"
    /\ params' = SheetPlan(input)
    /\ pc' = "sheetPlanned"
    /\ UNCHANGED <<input, options, enabledFormats, onProgress, encoder, idx, results, err,
                   attempt, tempDir, rmCount, palettes, artifact, notes,
                   ffmpegLog, run, ref, fc, request, sheets, calls, temp, store, ui,
                   preview>>

NextFilter ==
    \/ CallBuildFilterChain
    \/ CallExportTwitchFilter
    \/ CallSheetPlan

SpecFilter == InitFilter /\ [][NextFilter]_vars

\* --------------------------------------------------- the key colours
\* The hexadecimal digits the key colours are written with.
HexDigits == {"0", "8", "f", "F"}

\* The key colours: '#' and six hexadecimal digits, as the colour input of the
\* options panel and the store's default '#00FF00' give them.
KeyColors ==
    {<<"#", r1, r2, g1, g2, b1, b2>> :
        r1 \in HexDigits, r2 \in HexDigits, g1 \in HexDigits,
        g2 \in HexDigits, b1 \in HexDigits, b2 \in HexDigits}

\* parseInt of one hexadecimal digit written with HexDigits.
HexDigitValue(c) ==
    CASE c = "0" -> 0
      [] c = "8" -> 8
      [] OTHER -> 15

\* hexToRgb of the preview's chroma key on a colour '#rrggbb'.
hexToRgb(hex) ==
    [r |-> 16 * HexDigitValue(hex[2]) + HexDigitValue(hex[3]),
     g |-> 16 * HexDigitValue(hex[4]) + HexDigitValue(hex[5]),
     b |-> 16 * HexDigitValue(hex[6]) + HexDigitValue(hex[7])]

\* buildFilterChain and exportWebGIF's chain before their call, the chroma
\* key enabled on one of the key colours.
InitChroma ==
    /\ input = [fps |-> 30, duration |-> 21, width |-> 640, height |-> 480, name |-> NameClip]
    /\ options \in {[chromaKey |-> [enabled |-> TRUE, color |-> c, similarity |-> 30,
                                    blend |-> 10],
                      crop |-> <<>>, trim |-> <<>>, segments |-> <<>>] : c \in KeyColors}
    /\ fc = [args |-> <<[targetWidth |-> 112, targetHeight |-> 112, targetFps |-> 30,
                         maxFrames |-> 0]>>,
             chain |-> <<>>]
    /\ pc = "filter"
    /\ enabledFormats = [defined |-> FALSE, list |-> {}]
    /\ onProgress = "absent"
    /\ encoder = FreeEncoder
    /\ idx = 0
    /\ results = <<>>
    /\ err = ""
    /\ attempt = 0
    /\ params = NoParams
    /\ tempDir = "none"
    /\ rmCount = 0
    /\ palettes = {}
    /\ artifact = 0
    /\ notes = <<>>
    /\ ffmpegLog = <<>>
    /\ run = 1
    /\ ref = <<>>
    /\ request = NoRequest
    /\ sheets = {}
    /\ calls = <<>>
    /\ temp = NoTemp
    /\ store = InitialStore
    /\ ui = NoUi
    /\ preview = NoPreview

\* The chain exportWebGIF builds for its two passes (processor.ts 829-860).
CallWebGifFilterChain ==
    /\ pc = "filter"
    /\ fc' = [fc EXCEPT !.chain = <<webGifFilterChain(input, options)>>]
    /\ pc' = "webGifFilterDone"
    /\ UNCHANGED <<input, options, enabledFormats, onProgress, encoder, idx, results, err,
                   attempt, params, tempDir, rmCount, palettes, artifact, notes,
                   ffmpegLog, run, ref, request, sheets, calls, temp, store, ui,
                   preview>>

NextChroma ==
    \/ CallBuildFilterChain
    \/ CallWebGifFilterChain

SpecChroma == InitChroma /\ [][NextChroma]_vars

\* ------------------------------------------- the sheet plan of long sources
\* Durations of the sources of the sheet plan, in seconds: short ones, and
\* ones on both sides of 128 s, where 64 / duration passes one half.
\* Runs into an output directory that already holds a sprite sheet of the same
\* source, written by an earlier run with another frame count and frame rate.
StaleSheets ==
    {[name |-> [base |-> basename(i.name, extname(i.name)), frames |-> 10, fps |-> 5,
                ext |-> "png"],
      size |-> 7] : i \in MainInputs}

InitStale ==
    /\ input \in MainInputs
    /\ options = NoOptions
    /\ enabledFormats \in {[defined |-> TRUE, list |-> {"vrc-spritesheet", k}] :
                               k \in KeySet \ {"vrc-spritesheet"}}
    /\ onProgress = "present"
    /\ encoder = FreeEncoder
    /\ pc = "init"
    /\ idx = 0
    /\ results = <<>>
    /\ err = ""
    /\ attempt = 0
    /\ params = NoParams
    /\ tempDir = "none"
    /\ rmCount = 0
    /\ palettes = {}
    /\ artifact = 0
    /\ notes = <<>>
    /\ ffmpegLog = <<>>
    /\ run = 1
    /\ ref = <<>>
    /\ fc = NoFc
    /\ request = NoRequest
    /\ sheets = StaleSheets
    /\ calls = <<>>
    /\ temp = NoTemp
    /\ store = InitialStore
    /\ ui = NoUi
    /\ preview = NoPreview

SpecStale == InitStale /\ [][Next]_vars

\* ------------------------------------------- overlapping processVideo calls
\* Two invocations of the 'process-video' handler whose processVideo calls
\* overlap on one output directory. Each call is followed through its awaits
\* on the shared temp directory: mkdir, the first encoder pass (which writes
\* the palette, or the frames of the sprite sheet), the second pass (which
\* reads them), and the final rm. A file of the temp directory is
\* [path, writer]; its path depends on the platform only.
RunVars == <<input, options, enabledFormats, onProgress, encoder, pc, idx, results, err,
             attempt, params, tempDir, rmCount, palettes, artifact, notes, ffmpegLog,
             run, ref, fc, request, sheets>>

InitOverlap ==
    /\ input \in MainInputs
    /\ options = NoOptions
    /\ enabledFormats = [defined |-> FALSE, list |-> {}]
    /\ onProgress = "ipc"
    /\ encoder = FreeEncoder
    /\ pc = "overlap"
    /\ idx = 0
    /\ results = <<>>
    /\ err = ""
    /\ attempt = 0
    /\ params = NoParams
    /\ tempDir = "none"
    /\ rmCount = 0
    /\ palettes = {}
    /\ artifact = 0
    /\ notes = <<>>
    /\ ffmpegLog = <<>>
    /\ run = 1
    /\ ref = <<>>
    /\ fc = NoFc
    /\ request = NoRequest
    /\ sheets = {}
    /\ calls \in [{1, 2} -> {[pc |-> "init", format |-> k, ok |-> TRUE, read |-> 0] :
                                 k \in {"twitch", "7tv", "vrc-spritesheet"}}]
    /\ temp = NoTemp
    /\ store = InitialStore
    /\ ui = NoUi
    /\ preview = NoPreview

\* processor.ts 191-192: fs.mkdir(tempDir, {recursive: true}).
CallMkdir(c) ==
    /\ calls[c].pc = "init"
    /\ temp' = [temp EXCEPT !.exists = TRUE]
    /\ calls' = [calls EXCEPT ![c].pc = "pass1"]
    /\ UNCHANGED RunVars
    /\ UNCHANGED <<store, ui, preview>>

\* The first pass writes palette_<platform>.png (421-432, 646-656) or, after
\* fs.mkdir(framesDir, {recursive: true}), the frames of vrc_frames (703-749);
\* with -y it replaces a file of that path. The encoder creates no directory:
\* without the temp directory the palette pass fails and the platform's
\* result is a failure (266-276).
CallPass1(c) ==
    /\ calls[c].pc = "pass1"
    /\ IF temp.exists \/ calls[c].format = "vrc-spritesheet"
       THEN /\ temp' = [exists |-> TRUE,
                        files |-> {f \in temp.files : f.path # calls[c].format}
                                    \cup {[path |-> calls[c].format, writer |-> c]}]
            /\ calls' = [calls EXCEPT ![c].pc = "pass2"]
       ELSE /\ calls' = [calls EXCEPT ![c].pc = "rm", ![c].ok = FALSE]
            /\ UNCHANGED temp
    /\ UNCHANGED RunVars
    /\ UNCHANGED <<store, ui, preview>>

\* The second pass reads the file of that path (434-444, 658-668, 751-764),
\* whoever wrote it; without the file it fails.
CallPass2(c) ==
    /\ calls[c].pc = "pass2"
    /\ IF \E f \in temp.files : f.path = calls[c].format
       THEN calls' = [calls EXCEPT ![c].pc = "rm",
                                   ![c].read = (CHOOSE f \in temp.files :
                                                   f.path = calls[c].format).writer]
       ELSE calls' = [calls EXCEPT ![c].pc = "rm", ![c].ok = FALSE]
    /\ UNCHANGED temp
    /\ UNCHANGED RunVars
    /\ UNCHANGED <<store, ui, preview>>

\* processor.ts 283-284: fs.rm(tempDir, {recursive: true, force: true}).
CallRm(c) ==
    /\ calls[c].pc = "rm"
    /\ temp' = NoTemp
    /\ calls' = [calls EXCEPT ![c].pc = "done"]
    /\ UNCHANGED RunVars
    /\ UNCHANGED <<store, ui, preview>>

NextOverlap ==
    \E c \in {1, 2} :
        \/ CallMkdir(c)
        \/ CallPass1(c)
        \/ CallPass2(c)
        \/ CallRm(c)

SpecOverlap == InitOverlap /\ [][NextOverlap]_vars

\* ------------------------------------------------------- the renderer's store
\* The store (part_003) and the components that act on it: the file input
\* (part_007), the crop editors, the format selector (part_004), the options
\* panel and the process button (ProcessButton.tsx 190-297). Optional values
\* are sequences of length 0 or 1. ui.pending holds the requests sent through
\* window.electronAPI.processVideo that have not settled.
CropAreas ==
    {[x |-> 0, y |-> 0, width |-> 100, height |-> h] : h \in {104, 105}}

VideoInfos == {[width |-> 480, height |-> 480], [width |-> 640, height |-> 480]}

\* Math.abs
abs(n) == IF n < 0 THEN 0 - n ELSE n

\* ProcessButton.tsx 207-212 and part_004 8-13: the crop, or without a crop
\* the source frame, is square within a tolerance of 5 pixels.
isSquareCrop ==
    IF Len(store.cropArea) > 0
    THEN abs(store.cropArea[1].width - store.cropArea[1].height) < 5
    ELSE IF Len(store.videoInfo) > 0
         THEN abs(store.videoInfo[1].width - store.videoInfo[1].height) < 5
         ELSE FALSE

squareOnlyFormats == {"twitch", "discord-sticker", "discord-emote", "vrc-spritesheet"}

compatibleFormats_NoFilter == store.enabledFormats

\* ProcessButton.tsx 217-221
compatibleFormats ==
    {format \in store.enabledFormats : format \notin squareOnlyFormats \/ isSquareCrop}

\* ProcessButton.tsx 223
canProcess ==
    /\ Len(store.videoFile) > 0
    /\ Len(store.outputDir) > 0
    /\ ~store.isProcessing
    /\ compatibleFormats # {}

InitStore ==
    /\ input = [fps |-> 30, duration |-> 21, width |-> 640, height |-> 480, name |-> NameClip]
    /\ options = NoOptions
    /\ enabledFormats = [defined |-> FALSE, list |-> {}]
    /\ onProgress = "ipc"
    /\ encoder = FreeEncoder
    /\ pc = "renderer"
    /\ idx = 0
    /\ results = <<>>
    /\ err = ""
    /\ attempt = 0
    /\ params = NoParams
    /\ tempDir = "none"
    /\ rmCount = 0
    /\ palettes = {}
    /\ artifact = 0
    /\ notes = <<>>
    /\ ffmpegLog = <<>>
    /\ run = 1
    /\ ref = <<>>
    /\ fc = NoFc
    /\ request = NoRequest
    /\ sheets = {}
    /\ calls = <<>>
    /\ temp = NoTemp
    /\ store = InitialStore
    /\ ui = [electronAPI |-> TRUE, pending |-> <<>>, mounted |-> FALSE, dep |-> FALSE]
    /\ preview = NoPreview

\* part_003 70-71; part_007 8-19 selects a file and later stores its info, or
\* clears the file when the probe fails.
setVideoFile(file) ==
    /\ store' = [store EXCEPT !.videoFile = file]
    /\ UNCHANGED ui
    /\ UNCHANGED <<RunVars, calls, temp, preview>>

setVideoInfo(info) ==
    /\ Len(store.videoFile) > 0
    /\ store' = [store EXCEPT !.videoInfo = <<info>>]
    /\ UNCHANGED ui
    /\ UNCHANGED <<RunVars, calls, temp, preview>>

\* part_003 72; part_007 31-38
setOutputDir(dir) ==
    /\ ui.electronAPI
    /\ store' = [store EXCEPT !.outputDir = <<dir>>]
    /\ UNCHANGED ui
    /\ UNCHANGED <<RunVars, calls, temp, preview>>

\* part_003 73: set({ options })
setOptions(newOptions) ==
    /\ store' = [store EXCEPT !.options = newOptions]
    /\ UNCHANGED ui
    /\ UNCHANGED <<RunVars, calls, temp, preview>>

\* part_003 74-80: { ...state.options, [key]: value }
updateOption(key, value) ==
    /\ store' = [store EXCEPT !.options = [store.options EXCEPT ![key] = value]]
    /\ UNCHANGED ui
    /\ UNCHANGED <<RunVars, calls, temp, preview>>

\* part_003 81-90, from a checkbox that is disabled for a square-only format
\* while the crop is not square (part_004 48-49, 61-65).
toggleFormat(format) ==
    /\ ~(format \in squareOnlyFormats /\ ~isSquareCrop)
    /\ store' = [store EXCEPT !.enabledFormats =
                    IF format \in @ THEN @ \ {format} ELSE @ \cup {format}]
    /\ UNCHANGED ui
    /\ UNCHANGED <<RunVars, calls, temp, preview>>

\* part_003 91-98: cropArea and options.crop are written together.
setCropArea(crop) ==
    /\ store' = [store EXCEPT !.cropArea = crop, !.options.crop = crop]
    /\ UNCHANGED ui
    /\ UNCHANGED <<RunVars, calls, temp, preview>>

\* part_003 118-129: the fields reset() names; options, enabledFormats and
\* outputDir are not among them.
reset(st) ==
    [st EXCEPT !.videoFile = <<>>, !.videoInfo = <<>>, !.cropArea = <<>>,
               !.results = <<>>, !.isProcessing = FALSE]

\* ProcessButton.tsx 270-274, 291-297: the button is disabled while
\* isProcessing, and the user confirms.
handleReset ==
    /\ ~store.isProcessing
    /\ store' = reset(store)
    /\ UNCHANGED ui
    /\ UNCHANGED <<RunVars, calls, temp, preview>>

\* part_004 18-28: the effect of the format selector, run on mount and when
\* isSquareCrop has changed: without a square crop every enabled square-only
\* format is toggled off.
AutoDisable ==
    /\ ~ui.mounted \/ ui.dep # isSquareCrop
    /\ ui' = [ui EXCEPT !.mounted = TRUE, !.dep = isSquareCrop]
    /\ store' = IF isSquareCrop
                THEN store
                ELSE [store EXCEPT !.enabledFormats = @ \ squareOnlyFormats]
    /\ UNCHANGED <<RunVars, calls, temp, preview>>

\* ProcessButton.tsx 225-256 up to the await: the guard, setIsProcessing(true),
\* setResults([]), and the request with the compatible formats and the
\* options of the store.
handleProcess ==
    /\ canProcess
    /\ store' = [store EXCEPT !.isProcessing = TRUE, !.results = <<>>]
    /\ ui' = [ui EXCEPT !.pending =
                  Append(@, [formats |-> compatibleFormats, options |-> store.options])]
    /\ UNCHANGED <<RunVars, calls, temp, preview>>

\* ProcessButton.tsx 251-267 after the await: setResults on success, the alert
\* on failure, and setIsProcessing(false) in the finally block.
handleSettle_NoFinally(outcome) ==
    /\ Len(ui.pending) > 0
    /\ ui' = [ui EXCEPT !.pending = Tail(@)]
    /\ store' = IF outcome = "resolved"
                THEN [store EXCEPT !.results = <<"results">>, !.isProcessing = FALSE]
                ELSE store
    /\ UNCHANGED <<RunVars, calls, temp, preview>>

handleSettle(outcome) ==
    /\ Len(ui.pending) > 0
    /\ ui' = [ui EXCEPT !.pending = Tail(@)]
    /\ store' = [store EXCEPT
                    !.results = IF outcome = "resolved" THEN <<"results">> ELSE @,
                    !.isProcessing = FALSE]
    /\ UNCHANGED <<RunVars, calls, temp, preview>>

NextStore ==
    \/ \E file \in {<<>>, <<NameClip>>} : setVideoFile(file)
    \/ \E info \in VideoInfos : setVideoInfo(info)
    \/ setOutputDir("out")
    \/ \E quality \in {"balanced", "smallest"} : setOptions([InitialStore.options EXCEPT !.quality = quality])
    \/ \E quality \in {"balanced", "smallest"} : updateOption("quality", quality)
    \/ \E format \in {"twitch", "7tv"} : toggleFormat(format)
    \/ \E crop \in {<<>>} \cup {<<c>> : c \in CropAreas} : setCropArea(crop)
    \/ handleReset
    \/ AutoDisable
    \/ handleProcess
    \/ \E outcome \in {"resolved", "rejected"} : handleSettle(outcome)

SpecStore == InitStore /\ [][NextStore]_vars

\* ------------------------------------------------------------ generatePreview
\* One call of generatePreview (processor.ts 99-174), followed through its
\* awaits. preview.file says whether tempOutput exists; preview.locked is a
\* filesystem on which fs.unlink of that file can fail.
InitPreview ==
    /\ input \in MainInputs
    /\ options = NoOptions
    /\ enabledFormats = [defined |-> FALSE, list |-> {}]
    /\ onProgress = "absent"
    /\ encoder = FreeEncoder
    /\ pc = "preview"
    /\ idx = 0
    /\ results = <<>>
    /\ err = ""
    /\ attempt = 0
    /\ params = NoParams
    /\ tempDir = "none"
    /\ rmCount = 0
    /\ palettes = {}
    /\ artifact = 0
    /\ notes = <<>>
    /\ ffmpegLog = <<>>
    /\ run = 1
    /\ ref = <<>>
    /\ fc = NoFc
    /\ request = NoRequest
    /\ sheets = {}
    /\ calls = <<>>
    /\ temp = NoTemp
    /\ store = InitialStore
    /\ ui = NoUi
    /\ \E platform \in KeySet \cup {"unknown"}, locked \in BOOLEAN :
         preview = [NoPreview EXCEPT !.pc = "start", !.platform = platform,
                                     !.locked = locked]

\* fs.unlink(tempOutput): a missing file is an error, an existing one is
\* removed unless the filesystem refuses.
UnlinkOutcomes ==
    IF ~preview.file THEN {"error"}
    ELSE IF preview.locked THEN {"removed", "error"}
    ELSE {"removed"}

\* processor.ts 104-154: spec and tempOutput, the filter chain (an unknown
\* platform has no spec, and reading spec.width throws), and the encoder run,
\* which can fail before or after it has created the output file.
PreviewEncode ==
    /\ preview.pc = "start"
    /\ IF preview.platform \notin KeySet
       THEN preview' = [preview EXCEPT !.pc = "catch", !.failed = TRUE]
       ELSE \E exit \in {0, 1}, created \in BOOLEAN :
              IF exit = 0
              THEN preview' = [preview EXCEPT !.pc = "read", !.file = TRUE,
                                              !.written = TRUE]
              ELSE preview' = [preview EXCEPT !.pc = "catch", !.failed = TRUE,
                                              !.file = created, !.written = created]
    /\ UNCHANGED <<RunVars, calls, temp, store, ui>>

\* processor.ts 156-157: fs.readFile(tempOutput)
PreviewRead ==
    /\ preview.pc = "read"
    /\ \E readFails \in BOOLEAN :
         IF readFails
         THEN preview' = [preview EXCEPT !.pc = "catch", !.failed = TRUE]
         ELSE preview' = [preview EXCEPT !.pc = "unlink"]
    /\ UNCHANGED <<RunVars, calls, temp, store, ui>>

\* processor.ts 159-163: the unlink of the success path is not guarded: its
\* error goes to the catch block; otherwise the data URL is returned.
PreviewUnlink ==
    /\ preview.pc = "unlink"
    /\ \E outcome \in UnlinkOutcomes :
         IF outcome = "removed"
         THEN preview' = [preview EXCEPT !.pc = "done", !.file = FALSE,
                                         !.outcome = "preview"]
         ELSE preview' = [preview EXCEPT !.pc = "catch", !.unlinkFailed = TRUE]
    /\ UNCHANGED <<RunVars, calls, temp, store, ui>>

PreviewCatch_NoUnlink ==
    /\ preview.pc = "catch"
    /\ preview' = [preview EXCEPT !.pc = "done", !.outcome = "error"]
    /\ UNCHANGED <<RunVars, calls, temp, store, ui>>

\* processor.ts 164-173: the unlink whose error is ignored, then throw error.
PreviewCatch ==
    /\ preview.pc = "catch"
    /\ \E outcome \in UnlinkOutcomes :
         preview' = [preview EXCEPT
                        !.pc = "done",
                        !.file = IF outcome = "removed" THEN FALSE ELSE @,
                        !.unlinkFailed = IF outcome = "error" /\ preview.file
                                         THEN TRUE ELSE @,
                        !.outcome = "error"]
    /\ UNCHANGED <<RunVars, calls, temp, store, ui>>

NextPreview ==
    \/ PreviewEncode
    \/ PreviewRead
    \/ PreviewUnlink
    \/ PreviewCatch

SpecPreview == InitPreview /\ [][NextPreview]_vars

SheetSeconds == {1, 2, 64, 127, 128, 129, 200}

\* exportVRCSpriteSheet before its grid computation, on a source of at least
\* 1 fps.
InitSheet ==
    /\ input \in {[fps |-> f, duration |-> d * TimeDenom, width |-> 640, height |-> 480,
                    name |-> NameClip] : f \in 1..MaxSourceFps, d \in SheetSeconds}
    /\ options = NoOptions
    /\ fc = NoFc
    /\ pc = "filter"
    /\ enabledFormats = [defined |-> FALSE, list |-> {}]
    /\ onProgress = "absent"
    /\ encoder = FreeEncoder
    /\ idx = 0
    /\ results = <<>>
    /\ err = ""
    /\ attempt = 0
    /\ params = NoParams
    /\ tempDir = "none"
    /\ rmCount = 0
    /\ palettes = {}
    /\ artifact = 0
    /\ notes = <<>>
    /\ ffmpegLog = <<>>
    /\ run = 1
    /\ ref = <<>>
    /\ request = NoRequest
    /\ sheets = {}
    /\ calls = <<>>
    /\ temp = NoTemp
    /\ store = InitialStore
    /\ ui = NoUi
    /\ preview = NoPreview

NextSheet == CallSheetPlan

SpecSheet == InitSheet /\ [][NextSheet]_vars

\* =================================================================== claims
Last(q) == q[Len(q)]

\* Whether processVideo exports format k (processor.ts 213).
Enabled(k) == ~enabledFormats.defined \/ k \in enabledFormats.list

\* The results of the run that belong to format k.
ResultsOf(k) == {i \in 1..Len(results) : results[i].format = EMOTE_SPECS[k].name}

KeyOfName(n) == CHOOSE k \in KeySet : EMOTE_SPECS[k].name = n

IndexOfKey(k) == CHOOSE i \in 1..Len(FormatKeys) : FormatKeys[i] = k

LoopLabels == {"while", "loopPalette", "loopProgress", "loopEncode", "checkSize"}

\* The attempt limits the claims name.
ClaimedMaxAttempts(k) == IF k = "discord-sticker" THEN 15 ELSE 10

\* Errors with which an export itself ends: encoder error, size budget
\* exhausted, filesystem error.
ExportErrors == {FFmpegError, StickerBudgetError, StatError}

\* C1: whatever the encoder does, an optimisation loop never starts an
\* attempt beyond the platform's maximum (15 for the sticker, 10 for the
\* emote), and when the last attempt has missed the budget the next step of the
\* loop is terminal: the throw of the sticker or the return of the emote.
C1_BoundedAttempts ==
    [][/\ pc' \in LoopLabels => attempt' <= ClaimedMaxAttempts(FormatKeys[idx'])
       /\ (pc = "while" /\ attempt >= ClaimedMaxAttempts(formatKey))
             => (pc' \in {"catch", "progress100"} /\ attempt' = attempt)]_vars

\* C1 witness: the sticker loop after 15 attempts that all missed the budget.
C1_Witness ==
    /\ pc = "while"
    /\ formatKey = "discord-sticker"
    /\ attempt = 15
    /\ artifact > spec.maxSize

\* C2: when a loop platform has used its last attempt and the artifact is still
\* over the budget, the result recorded for the platform is a failure with a
\* non-empty error message, and processVideo goes on with the next platform.
C2_ExhaustedBudgetFails ==
    [][(/\ pc \in {"catch", "exported"}
        /\ IsLoopFormat(formatKey)
        /\ attempt = maxAttempts(formatKey)
        /\ artifact > spec.maxSize
        /\ results' # results)
          => (/\ ~Last(results').success
              /\ Len(Last(results').error) = 1
              /\ Last(results').error[1] # ""
              /\ pc' = "for")]_vars

\* C3: every successful ExportResult of a platform with a byte budget reports
\* a size of at most that budget.
C3_SuccessWithinBudget ==
    \A i \in 1..Len(results) :
        (results[i].success /\ EMOTE_SPECS[results[i].path].maxSize > 0)
            => results[i].size <= EMOTE_SPECS[results[i].path].maxSize

\* C4: the list processVideo returns holds exactly one ExportResult for each
\* enabled platform and none for any other.
C4_OneResultPerEnabled ==
    pc = "done" =>
        \A k \in KeySet : Cardinality(ResultsOf(k)) = IF Enabled(k) THEN 1 ELSE 0

\* The platforms after that of result i all have a result of their own.
LaterPlatformsRan(i) ==
    \A j \in 1..Len(FormatKeys) :
        (Enabled(FormatKeys[j]) /\ j > IndexOfKey(KeyOfName(results[i].format)))
            => ResultsOf(FormatKeys[j]) # {}

\* C5: a result already recorded is never changed by a later step, and when
\* processVideo returns, every platform whose export threw (encoder error,
\* budget exhausted, filesystem error) has a failed result and every enabled
\* platform after it was exported too.
C5_FailureIsolated ==
    [][/\ Len(results') >= Len(results)
       /\ SubSeq(results', 1, Len(results)) = results
       /\ pc' = "done" =>
             \A i \in 1..Len(results') :
                 (~results'[i].success /\ results'[i].error[1] \in ExportErrors)
                     => LaterPlatformsRan(i)']_vars

\* C6: when processVideo returns, the temp directory it created has been
\* removed exactly once, and it is removed only after every enabled platform
\* has its result.
C6_TempDirRemovedOnce ==
    /\ pc = "done" => (tempDir = "removed" /\ rmCount = 1)
    /\ rmCount > 0 => \A k \in KeySet : Enabled(k) => ResultsOf(k) # {}

\* C7: for the same inputs and the same encoder behaviour, the encoder
\* invocations, the result list and the cleanup of the temp directory of a run
\* with any progress callback (absent, returning, throwing) are those of the
\* run without a callback.
C7_ProgressIsAdvisory ==
    (run = 2 /\ pc = "done") => Outcome = ref[1]

\* The notification sent when the export of the current platform starts.
StartNote == [format |-> spec.name, stage |-> "Processing", progress |-> 0]

CompleteNote == [format |-> spec.name, stage |-> "Complete", progress |-> 100]

\* C8 as stated: with a callback, a notification is emitted at the start of
\* each attempt and after each of its two passes (three per finished attempt),
\* and at the final verdict also when the platform failed.
C8_NotifiedAtEveryPoint ==
    onProgress = "present" =>
        /\ pc = "checkSize" => Len(notes) >= 3 * attempt
        /\ (/\ pc = "for"
            /\ idx >= 1
            /\ Enabled(formatKey)
            /\ ResultsOf(formatKey) # {})
              => Last(notes).progress = 100

\* C8 amended: with a callback, the export of a platform notifies progress 0
\* once when it starts; an optimisation loop notifies once per attempt, after
\* the palette pass (30 + 5 * attempt), not at the start of an attempt and not
\* after the encode pass; an exporter without a loop notifies 50 after its
\* first pass; 100 is notified when the exporter returns normally, and stage
\* Complete after the success result is recorded; an export that ends with an
\* encoder error or an exhausted budget gets no notification beyond these.
C8_ProgressPoints ==
    (onProgress = "present" /\ idx >= 1) =>
        /\ pc \in {"dispatch", "palette", "sheetExtract"} => notes = <<StartNote>>
        /\ pc \in {"encode", "sheetTile"} => notes = <<StartNote, ProgressNote(50)>>
        /\ (pc = "progress100" /\ ~IsLoopFormat(formatKey)) => Len(notes) = 2
        /\ pc \in {"while", "loopEncode", "checkSize"} =>
              /\ Len(notes) = 1 + attempt
              /\ notes[1] = StartNote
              /\ \A a \in 1..attempt : notes[1 + a] = ProgressNote(30 + 5 * a)
        /\ pc \in {"loopPalette", "loopProgress"} => Len(notes) = attempt
        /\ (pc = "progress100" /\ IsLoopFormat(formatKey)) => Len(notes) = 1 + attempt
        /\ pc = "exported" => Last(notes) = ProgressNote(100)
        /\ (pc = "catch" /\ err \in {FFmpegError, StickerBudgetError}) =>
              Len(notes) <= 1 + attempt
        /\ (pc = "for" /\ Enabled(formatKey) /\ ResultsOf(formatKey) # {}) =>
              IF Last(results).success
              THEN Last(notes) = CompleteNote
              ELSE Last(results).error[1] \in {FFmpegError, StickerBudgetError}
                      => IF IsLoopFormat(formatKey)
                         THEN \A a \in 1..(Len(notes) - 1) :
                                  notes[1 + a] = ProgressNote(30 + 5 * a)
                         ELSE notes \in {<<StartNote>>, <<StartNote, ProgressNote(50)>>}

\* C8 witness: a loop in its third attempt with the callback supplied; the
\* palette pass of the attempt has been notified and the encode pass is done.
C8_Witness ==
    /\ onProgress = "present"
    /\ pc = "checkSize"
    /\ attempt = 3
    /\ Len(notes) = 4

\* The frame-rate stages of a filter chain.
FpsStages(chain) == SelectSeq(chain, LAMBDA st : st.stage = "fps")

\* C9: when duration * sourceFps exceeds the frame budget, the emitted rate is
\* at most min(targetFps, maxFrames / duration).
C9_RateWithinFrameBudget ==
    (/\ pc = "filterDone"
     /\ input.duration > 0
     /\ input.fps > 0
     /\ fc.args[1].maxFrames > 0
     /\ input.duration * input.fps > fc.args[1].maxFrames * TimeDenom)
       => \A i \in 1..Len(FpsStages(fc.chain[1])) :
             /\ RateLeq(FpsStages(fc.chain[1])[i].rate, Rate(fc.args[1].targetFps, 1))
             /\ RateLeq(FpsStages(fc.chain[1])[i].rate,
                        Rate(fc.args[1].maxFrames * TimeDenom, input.duration))

\* C10: when duration * sourceFps is within the frame budget, or no frame
\* budget is given, the chain has one frame-rate stage and it carries exactly
\* targetFps.
C10_TargetFpsUnmodified ==
    (/\ pc = "filterDone"
     /\ input.duration > 0
     /\ input.fps > 0
     /\ \/ fc.args[1].maxFrames = 0
        \/ input.duration * input.fps <= fc.args[1].maxFrames * TimeDenom)
       => FpsStages(fc.chain[1]) = <<[stage |-> "fps", rate |-> Rate(fc.args[1].targetFps, 1)]>>

\* C10 witness: a source of exactly 60 frames against the budget of 60, asked
\* for a target rate above the source rate.
C10_Witness ==
    /\ pc = "filterDone"
    /\ fc.args[1].maxFrames = 60
    /\ input.duration * input.fps = 60 * TimeDenom
    /\ fc.args[1].targetFps > input.fps

\* C11: for Twitch (60 frames, target rate min(sourceFps, 30)) and every source
\* with duration > 0 and fps > 0, the emitted rate times the duration is at
\* most 60 frames and the emitted rate is at most the target rate.
C11_TwitchWithinFrameBudget ==
    (/\ pc = "twitchFilterDone"
     /\ input.duration > 0
     /\ input.fps > 0)
       => \A i \in 1..Len(FpsStages(fc.chain[1])) :
             LET rate == FpsStages(fc.chain[1])[i].rate
             IN  /\ rate.num * input.duration
                       <= EMOTE_SPECS["twitch"].maxFrames * TimeDenom * rate.den
                 /\ RateLeq(rate, Rate(Min(input.fps, 30), 1))

\* The stage names of a filter chain, in order.
StageNames(chain) == [i \in 1..Len(chain) |-> chain[i].stage]

\* The chains buildFilterChain has returned in this state.
BuiltChains == IF pc \in {"filterDone", "twitchFilterDone"} THEN {fc.chain[1]} ELSE {}

\* C14: no filter chain returned by buildFilterChain holds a custom crop with
\* non-positive width or height or one reaching outside the source frame (such
\* a crop is rejected before any stage is built).
C14_MalformedCropRejected ==
    \A chain \in BuiltChains :
        \A i \in 1..Len(chain) :
            chain[i].stage = "crop" =>
                /\ chain[i].width > 0
                /\ chain[i].height > 0
                /\ chain[i].x >= 0
                /\ chain[i].y >= 0
                /\ chain[i].x + chain[i].width <= input.width
                /\ chain[i].y + chain[i].height <= input.height

\* C16: when the chroma key is switched off or absent, the chain holds no
\* chroma-key, spill-suppression or gamma/saturation stage: it is the scale,
\* the exact crop and the frame-rate stage, preceded by the custom crop when
\* one is given.
C16_NoKeyStagesWhenDisabled ==
    \A chain \in BuiltChains :
        ~options.chromaKey.enabled =>
            StageNames(chain) =
                IF Len(options.crop) > 0
                THEN <<"crop", "scale", "cropExact", "fps">>
                ELSE <<"scale", "cropExact", "fps">>

\* C16 witness: a chain built for options whose chroma key has a colour
\* configured but is switched off, with a custom crop.
C16_Witness ==
    /\ pc = "filterDone"
    /\ ~options.chromaKey.enabled
    /\ options.chromaKey.color = Green
    /\ Len(options.crop) > 0
    /\ Len(fc.chain[1]) = 4

\* Frames of the source: floor(duration * sourceFps).
SourceFrames == (input.duration * input.fps) \div TimeDenom

\* C17: the sheet holds frameCount = min(floor(duration * sourceFps), 64)
\* frames, the grid side is the least g with g * g >= frameCount and the cell
\* size is floor(1024 / g); 64 frames give a grid of 8, 130 source frames are
\* capped to 64 and give 8, 10 frames give 4; for every frameCount in 1..64
\* the grid holds all frames and the cells fit the sheet.
C17_SheetGrid ==
    pc = "sheetPlanned" =>
        /\ params.totalFrames = Min(SourceFrames, 64)
        /\ params.gridSize * params.gridSize >= params.totalFrames
        /\ params.gridSize > 0 =>
               /\ (params.gridSize - 1) * (params.gridSize - 1) < params.totalFrames
               /\ params.frameSize * params.gridSize <= 1024
               /\ (params.frameSize + 1) * params.gridSize > 1024
        /\ params.totalFrames = 64 => params.gridSize = 8
        /\ SourceFrames = 130 => (params.totalFrames = 64 /\ params.gridSize = 8)
        /\ params.totalFrames = 10 => params.gridSize = 4
        /\ params.totalFrames \in 1..64 => params.gridSize \in 1..8

\* C17 witness: a source of 130 frames (4.2 s at 31 fps), planned as 64 frames
\* on a grid of 8.
C17_Witness ==
    /\ pc = "sheetPlanned"
    /\ SourceFrames = 130
    /\ params.totalFrames = 64
    /\ params.gridSize = 8

\* The frames the tile pass puts into the sheet: it reads the extracted
\* frames in order and stops after one output frame (-frames:v 1), which
\* holds at most gridSize * gridSize of them.
TiledFrames == Min(params.actualFrames, params.gridSize * params.gridSize)

\* C18: the sprite sheet is renamed to {baseName}_{frameCount}frames_{fps}fps.png
\* where frameCount is the number of frames tiled into the sheet (at most 64
\* and at most gridSize * gridSize), fps is the rate of those frames, and
\* baseName is that of the source, underscores included.
C18_SheetFileName ==
    (pc = "progress100" /\ formatKey = "vrc-spritesheet") =>
        /\ params.newFilename.base = baseName
        /\ params.newFilename.ext = "png"
        /\ params.newFilename.frames = TiledFrames
        /\ params.newFilename.frames <= 64
        /\ params.newFilename.frames <= params.gridSize * params.gridSize
        /\ params.newFilename.fps = ExtractedRate(input)

\* C20 as stated: an encoder pass of attempt k of an optimisation loop, with k
\* below the platform's maximum, never ends the export: the loop goes on.
C20_EncoderErrorRetried ==
    [][(/\ pc \in {"loopPalette", "loopEncode"}
        /\ attempt < maxAttempts(formatKey))
          => pc' # "catch"]_vars

\* C20 amended: an encoder pass of an optimisation loop either succeeds and
\* the attempt goes on, or exits nonzero and ends the export at once, in any
\* attempt: no further attempt is started, and the platform's result is a
\* failure carrying the encoder error, recorded before processVideo returns to
\* its loop over the platforms.
C20_EncoderErrorEndsLoop ==
    [][/\ pc = "loopPalette" => pc' \in {"loopProgress", "catch"}
       /\ pc = "loopEncode" => pc' \in {"checkSize", "catch"}
       /\ (pc \in {"loopPalette", "loopEncode"} /\ pc' = "catch")
             => (err' = FFmpegError /\ attempt' = attempt /\ results' = results)
       /\ (pc = "catch" /\ IsLoopFormat(formatKey) /\ err = FFmpegError)
             => /\ pc' = "for"
                /\ results' = Append(results, Last(results'))
                /\ Last(results').format = spec.name
                /\ ~Last(results').success
                /\ Last(results').error = <<FFmpegError>>]_vars

\* C20 witness: the sticker export ended by an encoder error in its third
\* attempt, twelve attempts short of the maximum.
C20_Witness ==
    /\ pc = "catch"
    /\ formatKey = "discord-sticker"
    /\ err = FFmpegError
    /\ attempt = 3

\* The request has been sent to the process-video handler and the prober has
\* answered.
Probed == pc \notin {"button", "idle", "probe"}

\* The source of the request has no duration or no frame rate.
DegenerateSource ==
    \/ request.probe.duration = 0
    \/ Round(request.probe.rate[1], request.probe.rate[2]) = 0

\* C12: a source whose metadata has duration 0 or frame rate 0 is rejected:
\* the request ends in the rejection, and no temp directory is made, no
\* encoder is invoked and no result is produced for it.
C12_DegenerateSourceRejected ==
    (Probed /\ DegenerateSource) =>
        /\ pc = "rejected"
        /\ ffmpegLog = <<>>
        /\ results = <<>>

\* The prober failed: nonzero exit, or no video stream in its output.
ProbeFailed == request.probe.exit # 0 \/ ~request.probe.hasStream

\* C13: when probing the source fails, the request is aborted before any
\* platform runs: it ends in the rejection of getVideoInfo, no temp directory
\* is created, no encoder is invoked and no ExportResult is produced.
C13_ProbeFailureAborts ==
    (Probed /\ ProbeFailed) =>
        /\ pc = "rejected"
        /\ err \in {ProbeError, NoStreamError}
        /\ tempDir = "none"
        /\ ffmpegLog = <<>>
        /\ results = <<>>

\* C13 witness: a request rejected because the prober exited nonzero.
C13_Witness ==
    /\ pc = "rejected"
    /\ request.probe.exit # 0
    /\ request.formats # {}

\* The platforms for which the encoder was invoked.
EncodedKeys == {ffmpegLog[i][1] : i \in 1..Len(ffmpegLog)}

\* C19: for a request sent by the export button, no encoder invocation is
\* made and no ExportResult is returned for a platform outside the set of
\* formats the request carries.
C19_OnlySelectedExported ==
    request.window # "none" =>
        \A k \in KeySet \ request.formats :
            /\ k \notin EncodedKeys
            /\ ResultsOf(k) = {}

\* ------------------------------------------------------- the steps of a loop
\* The EncodeParameters among the locals of a loop.
EncodeParameters(p) ==
    [fps |-> p.fps, width |-> p.width, height |-> p.height, colors |-> p.colors,
     compressionLevel |-> p.compressionLevel]

\* C21: within a loop the steps of every attempt run in the order palette
\* pass, encode pass, size check, then pass or degrade: the encode pass starts
\* only after the palette pass of the same attempt has exited and written its
\* palette, the size check follows the encode pass of the same attempt, no
\* parameter changes before the size check of the attempt has missed, and
\* attempt k + 1 starts only after the degrade step of attempt k.
C21_AttemptStepsOrdered ==
    [][/\ pc' = "loopPalette" =>
             pc = "while" /\ attempt' = attempt + 1
       /\ pc' = "loopProgress" =>
             pc = "loopPalette" /\ attempt' = attempt
       /\ pc' = "loopEncode" =>
             /\ pc = "loopProgress"
             /\ attempt' = attempt
             /\ palettePath(formatKey, attempt) \in palettes
       /\ pc' = "checkSize" =>
             pc = "loopEncode" /\ attempt' = attempt
       /\ pc' = "while" =>
             \/ pc = "dispatch" /\ attempt' = 0
             \/ /\ pc = "checkSize"
                /\ attempt' = attempt
                /\ artifact > spec.maxSize
                /\ EncodeParameters(params') = EncodeParameters(Degrade(formatKey, params))
       /\ (pc \in LoopLabels /\ EncodeParameters(params') # EncodeParameters(params)) =>
             pc = "checkSize" /\ pc' = "while"
       /\ (pc \in LoopLabels /\ attempt' # attempt) =>
             pc = "while" /\ pc' = "loopPalette"
      ]_vars

\* The size check of a third attempt misses: two degrade steps lie behind it
\* and a third follows.
C21_Witness ==
    /\ pc = "checkSize"
    /\ attempt = 3
    /\ artifact > spec.maxSize

\* A step taken between the start of pass 1 and the end of pass 2 leaves the
\* settings, the options and the source as they are.
BetweenPassesKept ==
    (/\ pc \in {"palette", "progress50", "encode", "loopPalette", "loopProgress", "loopEncode"}
     /\ formatKey # "vrc-spritesheet") =>
        /\ params'.fps = params.fps
        /\ params'.width = params.width
        /\ params'.height = params.height
        /\ params'.colors = params.colors
        /\ params'.compressionLevel = params.compressionLevel
        /\ options' = options
        /\ input' = input

\* C22: in every attempt of every export the filter chain of the palette
\* generation pass is the filter chain of the palette application pass, both
\* passes carry the same trim window, and no EncodeParameters parameter
\* changes between the two passes.
C22_PassesAgree ==
    /\ [](((idx \in 1..Len(FormatKeys)) /\ formatKey # "vrc-spritesheet"
            /\ Len(params.gifFilter) > 0) =>
             /\ params.gifFilter = params.paletteFilter
             /\ params.inputArgs2 = params.inputArgs)
    /\ [][BetweenPassesKept]_vars

\* The second pass of a second attempt has run on a trimmed source.
C22_Witness ==
    /\ pc = "checkSize"
    /\ attempt = 2
    /\ Len(options.trim) > 0
    /\ Len(params.gifFilter) > 0

\* ------------------------------------------------------------ palette files
\* The palette files of platform k in the temp directory.
PalettesOf(k) == {f \in palettes : f[1] = k}

\* The palette files of attempts of the running loop earlier than the current.
EarlierPalettes == {f \in PalettesOf(formatKey) : f[2] < attempt}

\* An attempt of a loop is under way.
InAttempt == pc \in {"loopPalette", "loopProgress", "loopEncode", "checkSize"}

\* C23: at the start of every attempt k > 1 of a loop no palette file of an
\* earlier attempt of that loop remains in the temp directory, and at most one
\* palette file per platform exists at any time.
C23_OnePalettePerPlatform ==
    /\ \A k \in KeySet : Cardinality(PalettesOf(k)) <= 1
    /\ (InAttempt /\ attempt > 1) => EarlierPalettes = {}

\* C23 as amended: during every attempt of a loop, the palette files of
\* earlier attempts of that loop that remain are those whose unlink failed
\* (the error is ignored); on a filesystem that fails no unlink none remains
\* and at most one palette file per platform exists at any time.
C23_StaleOnlyIfUnlinkFailed ==
    /\ InAttempt =>
          EarlierPalettes = {palettePath(formatKey, a) :
                                a \in encoder.unlinkFails \cap 1..(attempt - 1)}
    /\ encoder.unlinkFails = {} => \A k \in KeySet : Cardinality(PalettesOf(k)) <= 1

\* A fourth attempt starts after the unlinks of the second and third failed
\* and that of the first succeeded.
C23_Witness ==
    /\ pc = "loopPalette"
    /\ attempt = 4
    /\ encoder.unlinkFails = {2, 3}
    /\ EarlierPalettes = {palettePath(formatKey, 2), palettePath(formatKey, 3)}

\* ----------------------------------------------------- degradation ladders
\* The dimension threshold of the shrink step of the ladder of platform k.
DimensionFloor(k) == IF k = "discord-sticker" THEN 240 ELSE 96

\* The frame rate below which no step of the ladder of platform k lowers it.
FrameRateFloor(k) == IF k = "discord-sticker" THEN 4 ELSE 8

\* C24: applying the degradation step any number of times up to the maximum
\* number of attempts never produces a colour count below 2 and never a width
\* or height below the dimension floor of the platform (240 for the sticker,
\* 96 for the emote).
C24_FloorsKept ==
    pc = "degrade" =>
        /\ params.colors >= 2
        /\ params.width >= DimensionFloor(formatKey)
        /\ params.height >= DimensionFloor(formatKey)

\* C24 as amended: applying the degradation step any number of times up to
\* the maximum number of attempts never produces a colour count below 64 and
\* never a width or height below 1; width and height do fall below 240
\* (sticker) and 96 (emote), which are thresholds of the shrink step only.
C24_ColorsAndPositiveSize ==
    pc = "degrade" =>
        /\ params.colors >= 64
        /\ params.width >= 1
        /\ params.height >= 1
        /\ (attempt = maxAttempts(formatKey)) =>
               /\ params.width < DimensionFloor(formatKey)
               /\ params.height < DimensionFloor(formatKey)

\* The sticker ladder applied fifteen times to a 10 fps start.
C24_Witness ==
    /\ pc = "degrade"
    /\ formatKey = "discord-sticker"
    /\ attempt = StickerMaxAttempts
    /\ input.fps >= StickerFpsCap
    /\ params.colors = 64

\* C25: in every attempt of every loop the settings handed to the encoder
\* have a colour count in 2..256, a positive width and height, and a width
\* and height no larger than the target size of the platform.
C25_ParametersInRange ==
    InAttempt =>
        /\ params.colors \in 2..256
        /\ params.width > 0
        /\ params.height > 0
        /\ params.width <= spec.width
        /\ params.height <= spec.height

\* The encode pass of the last attempt of the emote loop runs on settings
\* shrunk below the starting size.
C25_Witness ==
    /\ pc = "loopEncode"
    /\ formatKey = "discord-emote"
    /\ attempt = EmoteMaxAttempts
    /\ params.width < spec.width

\* The parameters a degrade step changed.
Changed(p, q) ==
    {f \in {"fps", "colors", "width", "height", "compressionLevel"} : p[f] # q[f]}

\* No step of the ladder of platform k but the last resort applies to p.
AllFloorsReached(k, p) ==
    /\ p.fps <= FrameRateFloor(k)
    /\ p.colors <= 64
    /\ p.width <= DimensionFloor(k)
    /\ p.height <= DimensionFloor(k)

\* One degrade step lowers the frame rate, or the colour count, or width and
\* height together, and nothing else.
OneStep(p, q) ==
    \/ Changed(p, q) = {"fps"} /\ q.fps < p.fps
    \/ Changed(p, q) = {"colors"} /\ q.colors < p.colors
    \/ Changed(p, q) = {"width", "height"} /\ q.width < p.width /\ q.height < p.height

\* C26: each degrade step changes either the frame rate, or the colour
\* count, or width and height together, and leaves the other parameters and
\* the compression level unchanged; once every floor is reached, the next
\* degrade step reduces the frame rate again.
C26_OneStepThenFrameRate ==
    [][(pc = "degrade" /\ pc' = "degrade") =>
          /\ OneStep(params, params')
          /\ AllFloorsReached(formatKey, params) => params'.fps < params.fps]_vars

\* C26 as amended: each degrade step changes either the frame rate, or the
\* colour count, or width and height together, and leaves the other
\* parameters and the compression level unchanged; once every floor is
\* reached, the next degrade step shrinks width and height once more and
\* leaves the frame rate as it is.
C26_OneStepThenShrink ==
    [][(pc = "degrade" /\ pc' = "degrade") =>
          /\ OneStep(params, params')
          /\ AllFloorsReached(formatKey, params) =>
                Changed(params, params') = {"width", "height"}]_vars

\* A ladder has reached every floor and been applied once more.
C26_Witness ==
    /\ pc = "degrade"
    /\ attempt >= 2
    /\ params.fps <= FrameRateFloor(formatKey)
    /\ params.colors = 64
    /\ params.width < RoundPct(DimensionFloor(formatKey), 85)

\* ------------------------------------------------- the order of the stages
\* The stages of a filter chain in the order the claim gives them.
StageOrder == <<"chromakey", "despill", "eq", "crop", "scale", "cropExact", "fps">>

\* The place of a stage name in StageOrder.
StageRank(n) == CHOOSE i \in 1..Len(StageOrder) : StageOrder[i] = n

\* C27: in every chain built by buildFilterChain the stages that are present
\* stand in the order chroma key, spill suppression, gamma/saturation, custom
\* crop, scale, exact crop, frame rate; scale, exact crop and frame rate are
\* always present, the frame-rate stage is last and there is exactly one.
C27_StagesInOrder ==
    \A chain \in BuiltChains :
        LET names == StageNames(chain)
        IN  /\ \A i \in 1..Len(names) : names[i] \in {StageOrder[j] : j \in 1..Len(StageOrder)}
            /\ \A i, j \in 1..Len(names) :
                   i < j => StageRank(names[i]) < StageRank(names[j])
            /\ \E i \in 1..Len(names) : names[i] = "scale"
            /\ \E i \in 1..Len(names) : names[i] = "cropExact"
            /\ Len(FpsStages(chain)) = 1
            /\ Last(names) = "fps"

\* A chain with all seven stages has been built.
C27_Witness ==
    /\ pc = "filterDone"
    /\ StageNames(fc.chain[1]) = StageOrder

\* ------------------------------------------------ spill suppression stages
\* The chains built in this state with the chroma key enabled.
KeyedChains ==
    IF pc \in {"filterDone", "webGifFilterDone"} /\ options.chromaKey.enabled
    THEN {fc.chain[1]}
    ELSE {}

\* The types of the spill-suppression stages of a chain.
DespillTypes(chain) == {chain[i].type : i \in {j \in 1..Len(chain) : chain[j].stage = "despill"}}

\* A chain has a gamma/saturation stage.
HasCorrection(chain) == \E i \in 1..Len(chain) : chain[i].stage = "eq"

\* C28: a chain has a gamma/saturation stage exactly when it has a
\* spill-suppression stage: with the chroma key enabled on a key colour that
\* is neither green nor blue, no correction stage is emitted.
C28_CorrectionOnlyWithDespill ==
    \A chain \in KeyedChains : HasCorrection(chain) <=> DespillTypes(chain) # {}

\* C29: with the chroma key enabled, for every key colour (r, g, b) the chain
\* has a green spill-suppression stage exactly when g > r and g > b, a blue
\* one exactly when b > r and b > g, and none otherwise.
C29_DespillByDominantChannel ==
    \A chain \in KeyedChains :
        LET c == hexToRgb(options.chromaKey.color)
        IN  /\ "green" \in DespillTypes(chain) <=> (c.g > c.r /\ c.g > c.b)
            /\ "blue" \in DespillTypes(chain) <=> (c.b > c.r /\ c.b > c.g)

\* ------------------------------------------------- sprite sheet extraction
\* C30: the sprite-sheet export extracts exactly min(floor(duration *
\* sourceFps), 64) frames: the number of extracted frame files never exceeds
\* 64 and never exceeds gridSize * gridSize.
C30_ExtractedFrameCount ==
    (pc = "progress100" /\ formatKey = "vrc-spritesheet") =>
        /\ params.actualFrames = Min(SourceFrames, 64)
        /\ params.actualFrames <= 64
        /\ params.actualFrames <= params.gridSize * params.gridSize

\* ------------------------------------------------- the caller's options
\* C31: processVideo leaves the options object of its caller unchanged: with
\* enabled segments and a trim window both supplied, the trim window keeps the
\* caller's start and end through every encoder invocation and after the
\* return.
C31_OptionsUnchanged == [][options' = options]_vars

\* ------------------------------------------------------- progress values
\* C32: every progress value reported for a platform is in 0..100, and the
\* values reported for one platform during one export never decrease, for
\* every number of attempts up to the maximum of the platform.
C32_ProgressInRangeAndMonotone ==
    /\ \A i \in 1..Len(notes) : notes[i].progress \in 0..100
    /\ \A i, j \in 1..Len(notes) : i < j => notes[i].progress <= notes[j].progress

\* ------------------------------------------------------ strict reduction
\* A degrade step from p to q raises no parameter and lowers at least one.
StrictlyReduced(p, q) ==
    /\ q.fps <= p.fps
    /\ q.colors <= p.colors
    /\ q.width <= p.width
    /\ q.height <= p.height
    /\ q.fps + q.colors + q.width + q.height < p.fps + p.colors + p.width + p.height

\* C33: every degrade step strictly reduces the parameters: none of frame
\* rate, colour count, width and height is larger than before and at least
\* one is strictly smaller (so no two attempts of one loop use the same
\* parameters), for every source frame rate, those at or below the floors of
\* the ladder included.
C33_DegradeStrictlyReduces ==
    [][(pc = "degrade" /\ pc' = "degrade") => StrictlyReduced(params, params')]_vars

\* A ladder applied to its last attempt on a source whose frame rate is below
\* every frame-rate threshold.
C33_Witness ==
    /\ pc = "degrade"
    /\ input.fps < FrameRateFloor(formatKey)
    /\ attempt = maxAttempts(formatKey)

\* ------------------------------------------------- sprite sheet frame rate
\* C34: for every source with duration > 0 and a frame rate of at least 1,
\* the frame rate the sprite-sheet export uses and writes into the file name
\* is at least 1; it is not 0 for a long source where 64 / duration is below
\* one half.
C34_SheetRateAtLeastOne ==
    (pc = "sheetPlanned" /\ input.duration > 0 /\ input.fps >= 1) => params.targetFps >= 1

\* C35: the sprite-sheet result names the file the current run wrote, with that
\* file's size, also when the output directory already held a sheet of the
\* same base name with another frame count or frame rate.
WrittenSheets == sheets \ StaleSheets

C35_SheetResultIsCurrentFile ==
    \A i \in ResultsOf("vrc-spritesheet") :
        results[i].success =>
            \E f \in WrittenSheets :
                results[i].file = <<f.name>> /\ results[i].size = f.size

\* C36: two overlapping processVideo calls on one output directory do not
\* interfere through the temp directory: between its two passes a call's
\* palette or frame file is in the directory as that call wrote it, neither
\* deleted by the other call's cleanup nor overwritten by its first pass.
C36_NeededFileKept ==
    \A c \in DOMAIN calls :
        calls[c].pc = "pass2" =>
            [path |-> calls[c].format, writer |-> c] \in temp.files

\* C37: at most one export request of the renderer is in flight. A request is
\* sent only while isProcessing is false, isProcessing is true for as long as
\* a request is pending, and the step that settles a request, resolved or
\* rejected, leaves isProcessing false, so that the button can send again.
InFlight == Len(ui.pending)

SendsOnlyWhenIdle == InFlight' > InFlight => ~store.isProcessing

SettleClearsFlag == InFlight' < InFlight => ~store'.isProcessing

C37_OneRequestInFlight ==
    /\ [](InFlight <= 1 /\ (InFlight > 0 => store.isProcessing))
    /\ [][SendsOnlyWhenIdle /\ SettleClearsFlag]_vars

\* A request was sent and has settled, and the button can send the next one.
C37_Witness ==
    /\ store.results = <<"results">>
    /\ InFlight = 0
    /\ canProcess

\* C38: after any sequence of store actions options.crop is the cropArea of
\* the store, and is absent when cropArea is null; after a reset no crop of
\* the previous video is left in the options.
C38_CropInSync == store.options.crop = store.cropArea

\* C39: an export request never contains a format that requires a square
\* frame (twitch, discord-sticker, discord-emote, vrc-spritesheet) when, at
\* the time it is sent, the crop, or without a crop the source frame, differs
\* in width and height by 5 pixels or more; and a request is sent only when at
\* least one enabled format is compatible with the frame.
SquareRequired == {"twitch", "discord-sticker", "discord-emote", "vrc-spritesheet"}

Frame == IF store.cropArea # <<>> THEN store.cropArea ELSE store.videoInfo

FrameIsSquare ==
    /\ Frame # <<>>
    /\ Frame[1].width - Frame[1].height < 5
    /\ Frame[1].height - Frame[1].width < 5

Sent == ui'.pending[Len(ui'.pending)]

SendRespectsSquare ==
    InFlight' > InFlight =>
        /\ Sent.formats \subseteq store.enabledFormats
        /\ Sent.formats # {}
        /\ Sent.formats \cap SquareRequired # {} => FrameIsSquare

C39_SquareFormatsNeedSquareFrame == [][SendRespectsSquare]_vars

\* A request in flight from which the filter has taken an enabled square-only
\* format: the crop is 100 x 105.
C39_Witness ==
    /\ InFlight = 1
    /\ "twitch" \in store.enabledFormats
    /\ "twitch" \notin ui.pending[1].formats
    /\ store.cropArea # <<>>
    /\ store.cropArea[1].height = 105

\* C40: generatePreview removes its temporary preview file on every path:
\* when the call has ended, after a preview was returned and after the
\* encoder or the read failed, the file of that call is gone, and a failure
\* ended the call with an error, not with a preview.
PreviewEnded == preview.pc = "done"

FailureIsError == preview.failed => preview.outcome = "error"

C40_PreviewFileRemoved ==
    PreviewEnded => (~preview.file /\ FailureIsError)

\* The file of an ended call remains only when an unlink of it failed; a
\* returned preview leaves none; a failure ends the call with an error.
C40_PreviewFileRemovedUnlessUnlinkFailed ==
    PreviewEnded =>
        /\ preview.file => preview.unlinkFailed
        /\ preview.outcome = "preview" => ~preview.file
        /\ FailureIsError

\* The encoder failed after it had created the file, and the catch block
\* removed it.
C40_Witness ==
    /\ PreviewEnded
    /\ preview.failed
    /\ preview.written
    /\ ~preview.file
    /\ preview.outcome = "error"
====
